---- MODULE Spec2Model ----
(***************************************************************************)
(* A model of the Tetris game core of Flow-Glow/tetris:                    *)
(*   src/src/tetromino.py  Tetromino (shape tables, rotation, blocks)      *)
(*   src/src/board.py      Board (grid, placement, row clearing)           *)
(*   src/src/game.py       TetrisGame (the per-frame update state machine) *)
(* Every method is an operator from the object's state to its new state,   *)
(* written statement by statement after the Python source; the actions     *)
(* apply these operators to the state variables.                           *)
(***************************************************************************)
EXTENDS Integers, Sequences, FiniteSets, TLC

(***************************************************************************)
(* tetromino.py                                                            *)
(***************************************************************************)

\* Tetromino.SHAPES: per shape type, the ordered 4x4 occupancy grids.
SHAPES ==
    [I |-> << << <<0,0,0,0>>, <<1,1,1,1>>, <<0,0,0,0>>, <<0,0,0,0>> >>,
              << <<0,1,0,0>>, <<0,1,0,0>>, <<0,1,0,0>>, <<0,1,0,0>> >> >>,
     O |-> << << <<0,0,0,0>>, <<0,1,1,0>>, <<0,1,1,0>>, <<0,0,0,0>> >> >>,
     T |-> << << <<0,0,0,0>>, <<0,1,0,0>>, <<1,1,1,0>>, <<0,0,0,0>> >>,
              << <<0,0,0,0>>, <<0,1,0,0>>, <<0,1,1,0>>, <<0,1,0,0>> >>,
              << <<0,0,0,0>>, <<0,0,0,0>>, <<1,1,1,0>>, <<0,1,0,0>> >>,
              << <<0,0,0,0>>, <<0,1,0,0>>, <<1,1,0,0>>, <<0,1,0,0>> >> >>,
     S |-> << << <<0,0,0,0>>, <<0,0,1,1>>, <<0,1,1,0>>, <<0,0,0,0>> >>,
              << <<0,0,0,0>>, <<0,1,0,0>>, <<0,1,1,0>>, <<0,0,1,0>> >> >>,
     Z |-> << << <<0,0,0,0>>, <<1,1,0,0>>, <<0,1,1,0>>, <<0,0,0,0>> >>,
              << <<0,0,0,0>>, <<0,0,1,0>>, <<0,1,1,0>>, <<0,1,0,0>> >> >>,
     J |-> << << <<0,0,0,0>>, <<0,1,0,0>>, <<0,1,0,0>>, <<1,1,0,0>> >>,
              << <<0,0,0,0>>, <<1,0,0,0>>, <<1,1,1,0>>, <<0,0,0,0>> >>,
              << <<0,0,0,0>>, <<0,1,1,0>>, <<0,1,0,0>>, <<0,1,0,0>> >>,
              << <<0,0,0,0>>, <<0,0,0,0>>, <<1,1,1,0>>, <<0,0,1,0>> >> >>,
     L |-> << << <<0,0,0,0>>, <<0,1,0,0>>, <<0,1,0,0>>, <<0,1,1,0>> >>,
              << <<0,0,0,0>>, <<0,0,0,0>>, <<1,1,1,0>>, <<1,0,0,0>> >>,
              << <<0,0,0,0>>, <<1,1,0,0>>, <<0,1,0,0>>, <<0,1,0,0>> >>,
              << <<0,0,0,0>>, <<0,0,1,0>>, <<1,1,1,0>>, <<0,0,0,0>> >> >>]

\* list(Tetromino.SHAPES.keys()): what random.choice draws from.
ShapeTypes == {"I", "O", "T", "S", "Z", "J", "L"}

\* Tetromino.COLORS
COLORS == [I |-> 12, O |-> 10, T |-> 13, S |-> 11, Z |-> 8, J |-> 5, L |-> 9]

\* Python's None for an Optional[Tetromino] field.
None == [shape_type |-> "None", rotation_index |-> 0, x |-> 0, y |-> 0]

\* Tetromino.__init__(shape_type, x, y) with the type already chosen.
Tetromino(shape_type, x, y) ==
    [shape_type |-> shape_type, rotation_index |-> 0, x |-> x, y |-> y]

\* self.rotations
rotations(t) == SHAPES[t.shape_type]

\* self.color
color(t) == COLORS[t.shape_type]

\* Tetromino.shape: the current rotation state (Python indexes from 0).
shape(t) == rotations(t)[t.rotation_index + 1]

rotate_clockwise_noWrap(t) ==
    [t EXCEPT !.rotation_index = t.rotation_index + 1]

\* Tetromino.rotate_clockwise
rotate_clockwise(t) ==
    [t EXCEPT !.rotation_index = (t.rotation_index + 1) % Len(rotations(t))]

rotate_counterclockwise_noWrap(t) ==
    [t EXCEPT !.rotation_index = t.rotation_index - 1]

\* Tetromino.rotate_counterclockwise (Python's % is non-negative for a
\* positive modulus, as is TLA+'s).
rotate_counterclockwise(t) ==
    [t EXCEPT !.rotation_index = (t.rotation_index - 1) % Len(rotations(t))]

\* The (row, col) pairs of the 4x4 box in the order of the nested loops.
RowCol == [i \in 1..16 |-> <<(i - 1) \div 4, (i - 1) % 4>>]

\* Tetromino.get_blocks: the absolute <<x, y>> of every occupied cell, in
\* loop order.
get_blocks(t) ==
    LET occ == SelectSeq(RowCol, LAMBDA rc : shape(t)[rc[1] + 1][rc[2] + 1] # 0)
    IN  [i \in 1..Len(occ) |-> <<t.x + occ[i][2], t.y + occ[i][1]>>]

(***************************************************************************)
(* board.py                                                                *)
(***************************************************************************)

\* [0] * width
EmptyRow(width) == [x \in 1..width |-> 0]

\* Board.__init__
Board(width, height) ==
    [width |-> width, height |-> height,
     grid |-> [y \in 1..height |-> EmptyRow(width)]]

\* self.grid[y][x] with Python's 0-based indices.
Cell(b, x, y) == b.grid[y + 1][x + 1]

RECURSIVE valid_from(_, _, _)
\* The for loop of is_valid_position from the i-th block on.
valid_from(b, blocks, i) ==
    IF i > Len(blocks) THEN TRUE
    ELSE LET x == blocks[i][1]
             y == blocks[i][2]
         IN  IF x < 0 \/ x >= b.width \/ y >= b.height THEN FALSE
             ELSE IF y >= 0 /\ Cell(b, x, y) # 0 THEN FALSE
             ELSE valid_from(b, blocks, i + 1)

is_valid_position_noOverlap(b, t) ==
    \A i \in 1..Len(get_blocks(t)) :
        LET x == get_blocks(t)[i][1]
            y == get_blocks(t)[i][2]
        IN  ~(x < 0 \/ x >= b.width \/ y >= b.height)

\* Board.is_valid_position
is_valid_position(b, t) == valid_from(b, get_blocks(t), 1)

RECURSIVE lock_from(_, _, _, _)
\* The for loop of lock_tetromino from the i-th block on.
lock_from(b, blocks, c, i) ==
    IF i > Len(blocks) THEN b
    ELSE LET x == blocks[i][1]
             y == blocks[i][2]
         IN  IF 0 <= y /\ y < b.height /\ 0 <= x /\ x < b.width
             THEN lock_from([b EXCEPT !.grid[y + 1][x + 1] = c], blocks, c, i + 1)
             ELSE lock_from(b, blocks, c, i + 1)

\* Board.lock_tetromino
lock_tetromino(b, t) == lock_from(b, get_blocks(t), color(t), 1)

\* all(self.grid[y][x] != 0 for x in range(self.width))
RowFull(b, y) == \A x \in 0..(b.width - 1) : Cell(b, x, y) # 0

\* del self.grid[y]; self.grid.insert(0, [0] * self.width)
DeleteInsert(b, y) ==
    [b EXCEPT !.grid = <<EmptyRow(b.width)>> \o SubSeq(b.grid, 1, y)
                          \o SubSeq(b.grid, y + 2, Len(b.grid))]

RECURSIVE clear_loop(_, _, _)
\* The while loop of clear_lines: y is the row index, n is lines_cleared.
clear_loop(b, y, n) ==
    IF y >= 0
    THEN IF RowFull(b, y)
         THEN clear_loop(DeleteInsert(b, y), y, n + 1)
         ELSE clear_loop(b, y - 1, n)
    ELSE [board |-> b, ret |-> n]

RECURSIVE clear_loop_advance(_, _, _)
clear_loop_advance(b, y, n) ==
    IF y >= 0
    THEN IF RowFull(b, y)
         THEN clear_loop_advance(DeleteInsert(b, y), y - 1, n + 1)
         ELSE clear_loop_advance(b, y - 1, n)
    ELSE [board |-> b, ret |-> n]

clear_lines_advance(b) == clear_loop_advance(b, b.height - 1, 0)

\* Board.clear_lines: the board afterwards and the returned count.
clear_lines(b) == clear_loop(b, b.height - 1, 0)

is_game_over_bottomRow(b) == \E x \in 0..(b.width - 1) : Cell(b, x, b.height - 1) # 0

\* Board.is_game_over
is_game_over(b) == \E x \in 0..(b.width - 1) : Cell(b, x, 0) # 0

\* Board.get_cell
get_cell(b, x, y) ==
    IF 0 <= x /\ x < b.width /\ 0 <= y /\ y < b.height THEN Cell(b, x, y) ELSE 0

\* Board.reset
board_reset(b) == [b EXCEPT !.grid = [y \in 1..b.height |-> EmptyRow(b.width)]]

(***************************************************************************)
(* game.py: TetrisGame.  A game is the record g of the object's fields.    *)
(* Three fields stand for the environment: g.draws, the upcoming results  *)
(* of random.choice in Tetromino(), g.rndf, the upcoming outcomes of       *)
(* pyxel.rndf(0, 1) < 0.05, and g.spread, the <<dx, dy>> that              *)
(* pyxel.rndf(-1, 1) and pyxel.rndf(-2, -0.5) give the particles of a      *)
(* call (one draw for all the particles of the call).  g.locks counts the  *)
(* calls of lock_current_piece (history, not a field of the object).  A    *)
(* particle is kept as its remaining life, its colour and the velocity     *)
(* drawn for it; its position and current velocity follow from these and   *)
(* its age.                                                                *)
(***************************************************************************)

FALL_SPEED_TABLE ==
    <<48, 43, 38, 33, 28, 23, 18, 13, 8, 6,
      5, 5, 5, 4, 4, 4, 3, 3, 3, 2,
      2, 2, 2, 2, 2, 2, 2, 2, 2, 1>>
MOVE_DELAY == 8
INITIAL_MOVE_DELAY == 15
LOCK_DELAY == 15
LOCK_DELAY_EXTENSION == 5
CLEAR_ANIMATION == 8

Max(a, b) == IF a >= b THEN a ELSE b
Min(a, b) == IF a <= b THEN a ELSE b

calculate_fall_speed_shortTable(level) ==
    FALL_SPEED_TABLE[Max(0, Min(level - 1, Len(FALL_SPEED_TABLE) - 2)) + 1]

\* TetrisGame.calculate_fall_speed
calculate_fall_speed(level) ==
    FALL_SPEED_TABLE[Max(0, Min(level - 1, Len(FALL_SPEED_TABLE) - 1)) + 1]

\* The particle velocity of a call that makes no particle, and of the
\* explorations that do not vary it.
NoSpread == <<0, 0 - 1>>

\* Tetromino() with shape_type None: random.choice takes the next draw.
\* The piece is built at the default x = 3, y = 0.
RandomTetromino(g) == Tetromino(Head(g.draws), 3, 0)

\* The spawn column, self.board.width // 2 - 2.
SpawnX(g) == (g.board.width \div 2) - 2

spawn_new_piece_noCheck(g) ==
    LET g1  == IF g.next_piece = None
               THEN [g EXCEPT !.next_piece = RandomTetromino(g),
                              !.draws = Tail(g.draws)]
               ELSE g
    IN  [g1 EXCEPT !.current_piece = [g1.next_piece EXCEPT !.x = SpawnX(g1), !.y = 0],
                   !.next_piece = RandomTetromino(g1),
                   !.draws = Tail(g1.draws),
                   !.lock_delay_timer = 0,
                   !.piece_on_ground = FALSE,
                   !.can_swap = TRUE,
                   !.last_rotation_was_spin = FALSE]

\* TetrisGame.spawn_new_piece
spawn_new_piece(g) ==
    LET g1  == IF g.next_piece = None
               THEN [g EXCEPT !.next_piece = RandomTetromino(g),
                              !.draws = Tail(g.draws)]
               ELSE g
        cur == [g1.next_piece EXCEPT !.x = SpawnX(g1), !.y = 0]
        g2  == [g1 EXCEPT !.current_piece = cur,
                          !.next_piece = RandomTetromino(g1),
                          !.draws = Tail(g1.draws),
                          !.lock_delay_timer = 0,
                          !.piece_on_ground = FALSE,
                          !.can_swap = TRUE,
                          !.last_rotation_was_spin = FALSE]
    IN  IF ~is_valid_position(g2.board, g2.current_piece)
        THEN [g2 EXCEPT !.game_over = TRUE]
        ELSE g2

\* TetrisGame.__init__ up to, and with, its call of spawn_new_piece.
TetrisGame(board_width, board_height, start_level, draws, rndf) ==
    LET sl == Max(1, start_level)
    IN  spawn_new_piece(
          [board |-> Board(board_width, board_height),
           current_piece |-> None,
           next_piece |-> None,
           held_piece |-> None,
           can_swap |-> TRUE,
           score |-> 0,
           high_score |-> 0,
           start_level |-> sl,
           lines_cleared |-> (sl - 1) * 10,
           level |-> sl,
           game_over |-> FALSE,
           paused |-> FALSE,
           combo |-> 0,
           clearing_lines |-> <<>>,
           clear_animation_timer |-> 0,
           level_up_timer |-> 0,
           score_popup |-> 0,
           score_popup_timer |-> 0,
           tetris_timer |-> 0,
           shake_timer |-> 0,
           particles |-> <<>>,
           spin_message |-> "",
           spin_message_timer |-> 0,
           last_rotation_was_spin |-> FALSE,
           jump_scare_active |-> FALSE,
           jump_scare_timer |-> 0,
           fall_counter |-> 0,
           fall_speed |-> calculate_fall_speed(sl),
           move_left_counter |-> 0,
           move_right_counter |-> 0,
           move_down_counter |-> 0,
           lock_delay_timer |-> 0,
           piece_on_ground |-> FALSE,
           draws |-> draws,
           rndf |-> rndf,
           spread |-> NoSpread,
           locks |-> 0])

ExtendLockDelay_reset(g) ==
    IF g.piece_on_ground
    THEN [g EXCEPT !.lock_delay_timer = LOCK_DELAY]
    ELSE g

ExtendLockDelay_noCap(g) ==
    IF g.piece_on_ground
    THEN [g EXCEPT !.lock_delay_timer = @ + LOCK_DELAY_EXTENSION]
    ELSE g

\* min(self.lock_delay_timer + LOCK_DELAY_EXTENSION, LOCK_DELAY) when the
\* piece is on the ground (the tail of move_piece and of rotate_piece).
ExtendLockDelay(g) ==
    IF g.piece_on_ground
    THEN [g EXCEPT !.lock_delay_timer =
                      Min(g.lock_delay_timer + LOCK_DELAY_EXTENSION, LOCK_DELAY)]
    ELSE g

move_piece_ignoreFlags(g, dx, dy) ==
    LET moved == [g.current_piece EXCEPT !.x = @ + dx, !.y = @ + dy]
    IN  IF ~is_valid_position(g.board, moved)
        THEN [g |-> g, ret |-> FALSE]
        ELSE [g |-> ExtendLockDelay([g EXCEPT !.current_piece = moved]), ret |-> TRUE]

\* TetrisGame.move_piece: the game afterwards and the returned bool.
move_piece(g, dx, dy) ==
    IF g.current_piece = None \/ g.game_over \/ g.paused
    THEN [g |-> g, ret |-> FALSE]
    ELSE LET moved == [g.current_piece EXCEPT !.x = @ + dx, !.y = @ + dy]
         IN  IF ~is_valid_position(g.board, moved)
             THEN [g |-> g, ret |-> FALSE]
             ELSE [g |-> ExtendLockDelay([g EXCEPT !.current_piece = moved]),
                   ret |-> TRUE]

check_spin_twoCorners(g) ==
    IF g.current_piece = None THEN FALSE
    ELSE LET p == g.current_piece
             corners == << <<p.x + 0, p.y + 0>>, <<p.x + 2, p.y + 0>>,
                           <<p.x + 0, p.y + 2>>, <<p.x + 2, p.y + 2>> >>
             occupied(c) == \/ c[1] < 0 \/ c[1] >= g.board.width
                            \/ c[2] < 0 \/ c[2] >= g.board.height
                            \/ get_cell(g.board, c[1], c[2]) # 0
             occupied_corners == Cardinality({i \in 1..4 : occupied(corners[i])})
         IN  occupied_corners >= 2

\* TetrisGame.check_spin
check_spin(g) ==
    IF g.current_piece = None THEN FALSE
    ELSE LET p == g.current_piece
             corners == << <<p.x + 0, p.y + 0>>, <<p.x + 2, p.y + 0>>,
                           <<p.x + 0, p.y + 2>>, <<p.x + 2, p.y + 2>> >>
             occupied(c) == \/ c[1] < 0 \/ c[1] >= g.board.width
                            \/ c[2] < 0 \/ c[2] >= g.board.height
                            \/ get_cell(g.board, c[1], c[2]) # 0
             occupied_corners == Cardinality({i \in 1..4 : occupied(corners[i])})
         IN  occupied_corners >= 3

\* for dx in [0, -1, 1, -2, 2]
KICKS == <<0, -1, 1, -2, 2>>

RECURSIVE kick_from_accumulate(_, _, _)
kick_from_accumulate(b, p, i) ==
    IF i > Len(KICKS) THEN None
    ELSE LET q == [p EXCEPT !.x = @ + KICKS[i]]
         IN  IF is_valid_position(b, q) THEN q ELSE kick_from_accumulate(b, q, i + 1)

RECURSIVE kick_from(_, _, _)
\* The wall-kick loop of rotate_piece from the i-th offset on: the piece
\* at the first valid offset, or None when the loop ends without a break.
kick_from(b, p, i) ==
    IF i > Len(KICKS) THEN None
    ELSE LET q == [p EXCEPT !.x = @ + KICKS[i]]
         IN  IF is_valid_position(b, q) THEN q ELSE kick_from(b, p, i + 1)

rotate_piece_noRevert(g, clockwise) ==
    IF g.current_piece = None \/ g.game_over \/ g.paused THEN g
    ELSE LET rot == IF clockwise THEN rotate_clockwise(g.current_piece)
                    ELSE rotate_counterclockwise(g.current_piece)
             placed == IF is_valid_position(g.board, rot) THEN rot
                       ELSE kick_from(g.board, rot, 1)
             back == IF clockwise THEN rotate_counterclockwise(rot)
                     ELSE rotate_clockwise(rot)
         IN  IF placed = None
             THEN [g EXCEPT !.current_piece = rot,
                            !.last_rotation_was_spin = FALSE]
             ELSE LET g1 == [g EXCEPT !.current_piece = placed]
                      g2 == IF placed.shape_type \in {"T", "S", "Z"}
                            THEN [g1 EXCEPT !.last_rotation_was_spin = check_spin(g1)]
                            ELSE [g1 EXCEPT !.last_rotation_was_spin = FALSE]
                  IN  ExtendLockDelay(g2)

\* TetrisGame.rotate_piece
rotate_piece(g, clockwise) ==
    IF g.current_piece = None \/ g.game_over \/ g.paused THEN g
    ELSE LET rot == IF clockwise THEN rotate_clockwise(g.current_piece)
                    ELSE rotate_counterclockwise(g.current_piece)
             placed == IF is_valid_position(g.board, rot) THEN rot
                       ELSE kick_from(g.board, rot, 1)
             back == IF clockwise THEN rotate_counterclockwise(rot)
                     ELSE rotate_clockwise(rot)
         IN  IF placed = None
             THEN [g EXCEPT !.current_piece = back,
                            !.last_rotation_was_spin = FALSE]
             ELSE LET g1 == [g EXCEPT !.current_piece = placed]
                      g2 == IF placed.shape_type \in {"T", "S", "Z"}
                            THEN [g1 EXCEPT !.last_rotation_was_spin = check_spin(g1)]
                            ELSE [g1 EXCEPT !.last_rotation_was_spin = FALSE]
                  IN  ExtendLockDelay(g2)

hold_piece_keepSwap(g) ==
    IF ~g.can_swap \/ g.game_over \/ g.paused \/ g.current_piece = None THEN g
    ELSE LET g1 ==
               IF g.held_piece = None
               THEN spawn_new_piece(
                      [g EXCEPT !.held_piece =
                                   Tetromino(g.current_piece.shape_type, 3, 0)])
               ELSE LET temp_type == g.held_piece.shape_type
                    IN  [g EXCEPT !.held_piece =
                                     Tetromino(g.current_piece.shape_type, 3, 0),
                                  !.current_piece =
                                     Tetromino(temp_type, SpawnX(g), 0),
                                  !.lock_delay_timer = 0,
                                  !.piece_on_ground = FALSE]
         IN  [g1 EXCEPT !.last_rotation_was_spin = FALSE]

\* TetrisGame.hold_piece
hold_piece(g) ==
    IF ~g.can_swap \/ g.game_over \/ g.paused \/ g.current_piece = None THEN g
    ELSE LET g1 ==
               IF g.held_piece = None
               THEN spawn_new_piece(
                      [g EXCEPT !.held_piece =
                                   Tetromino(g.current_piece.shape_type, 3, 0)])
               ELSE LET temp_type == g.held_piece.shape_type
                    IN  [g EXCEPT !.held_piece =
                                     Tetromino(g.current_piece.shape_type, 3, 0),
                                  !.current_piece =
                                     Tetromino(temp_type, SpawnX(g), 0),
                                  !.lock_delay_timer = 0,
                                  !.piece_on_ground = FALSE]
         IN  [g1 EXCEPT !.can_swap = FALSE, !.last_rotation_was_spin = FALSE]

RECURSIVE drop_loop(_, _)
\* while self.move_piece(0, 1): drop_distance += 1
drop_loop(g, drop_distance) ==
    LET m == move_piece(g, 0, 1)
    IN  IF m.ret THEN drop_loop(m.g, drop_distance + 1)
        ELSE [g |-> m.g, ret |-> drop_distance]

\* line_scores
LINE_SCORES == <<0, 100, 300, 500, 800>>

\* [y for y in range(height) if all(grid[y][x] != 0 for x in range(width))]
FullLines(b) ==
    SelectSeq([i \in 1..b.height |-> i - 1], LAMBDA y : RowFull(b, y))

\* range(0, self.board.width, 3)
ParticleColumns(b) == SelectSeq([i \in 1..b.width |-> i - 1], LAMBDA x : x % 3 = 0)

\* The particles one full row y appends, in the order of the x loop.
RowParticles(b, y, v) ==
    LET xs == ParticleColumns(b)
    IN  [i \in 1..Len(xs) |->
           [dx |-> v[1], dy |-> v[2], life |-> 20,
            color |-> IF Cell(b, xs[i], y) # 0 THEN Cell(b, xs[i], y) ELSE 7]]

RECURSIVE NewParticles(_, _, _, _)
\* for y in full_lines: for x in range(0, width, 3): particles.append(...)
NewParticles(b, full_lines, i, v) ==
    IF i > Len(full_lines) THEN <<>>
    ELSE RowParticles(b, full_lines[i], v) \o NewParticles(b, full_lines, i + 1, v)

\* The spin bonus and banner of lock_current_piece for `lines` full rows.
SpinAward(g, lines) ==
    IF g.last_rotation_was_spin /\ g.current_piece.shape_type \in {"T", "S", "Z"}
    THEN LET piece_name == g.current_piece.shape_type
         IN  IF lines = 1
             THEN [bonus |-> 800 * g.level, name |-> piece_name \o "-SPIN!"]
             ELSE IF lines = 2
             THEN [bonus |-> 1200 * g.level, name |-> piece_name \o "-SPIN DOUBLE!"]
             ELSE IF lines = 3
             THEN [bonus |-> 1600 * g.level, name |-> piece_name \o "-SPIN TRIPLE!"]
             ELSE [bonus |-> 0, name |-> ""]
    ELSE [bonus |-> 0, name |-> ""]

LockFullLines_comboFromOne(g, full_lines) ==
    LET scare == Head(g.rndf)
        lines == Len(full_lines)
        spin  == SpinAward(g, lines)
        combo == g.combo + 1
        base  == LINE_SCORES[Min(lines, 4) + 1] * g.level + spin.bonus
        score_gained == IF combo >= 1 THEN base + 50 * combo * g.level ELSE base
        score == g.score + score_gained
        lines_cleared == g.lines_cleared + lines
        level == (lines_cleared \div 10) + 1
    IN  [g EXCEPT !.clearing_lines = full_lines,
                  !.clear_animation_timer = CLEAR_ANIMATION,
                  !.combo = combo,
                  !.rndf = Tail(g.rndf),
                  !.jump_scare_active = IF scare THEN TRUE ELSE @,
                  !.jump_scare_timer = IF scare THEN 10 ELSE @,
                  !.lines_cleared = lines_cleared,
                  !.spin_message = IF spin.name # "" THEN spin.name ELSE @,
                  !.spin_message_timer = IF spin.name # "" THEN 80 ELSE @,
                  !.score = score,
                  !.score_popup = score_gained,
                  !.score_popup_timer = 60,
                  !.high_score = IF score > g.high_score THEN score ELSE @,
                  \* max(shake_timer, 12) of the spin banner is overwritten
                  !.shake_timer = 4 + (lines * 2),
                  !.tetris_timer = IF lines >= 4 THEN 80 ELSE @,
                  !.level = level,
                  !.level_up_timer = IF level > g.level THEN 90 ELSE @,
                  !.fall_speed = calculate_fall_speed(level),
                  !.particles = @ \o NewParticles(g.board, full_lines, 1, g.spread)]

LockFullLines_scareFromSpread(g, full_lines) ==
    LET scare == g.spread[1] < 0
        lines == Len(full_lines)
        spin  == SpinAward(g, lines)
        combo == g.combo + 1
        base  == LINE_SCORES[Min(lines, 4) + 1] * g.level + spin.bonus
        score_gained == IF combo > 1 THEN base + 50 * combo * g.level ELSE base
        score == g.score + score_gained
        lines_cleared == g.lines_cleared + lines
        level == (lines_cleared \div 10) + 1
    IN  [g EXCEPT !.clearing_lines = full_lines,
                  !.clear_animation_timer = CLEAR_ANIMATION,
                  !.combo = combo,
                  !.rndf = Tail(g.rndf),
                  !.jump_scare_active = IF scare THEN TRUE ELSE @,
                  !.jump_scare_timer = IF scare THEN 10 ELSE @,
                  !.lines_cleared = lines_cleared,
                  !.spin_message = IF spin.name # "" THEN spin.name ELSE @,
                  !.spin_message_timer = IF spin.name # "" THEN 80 ELSE @,
                  !.score = score,
                  !.score_popup = score_gained,
                  !.score_popup_timer = 60,
                  !.high_score = IF score > g.high_score THEN score ELSE @,
                  \* max(shake_timer, 12) of the spin banner is overwritten
                  !.shake_timer = 4 + (lines * 2),
                  !.tetris_timer = IF lines >= 4 THEN 80 ELSE @,
                  !.level = level,
                  !.level_up_timer = IF level > g.level THEN 90 ELSE @,
                  !.fall_speed = calculate_fall_speed(level),
                  !.particles = @ \o NewParticles(g.board, full_lines, 1, g.spread)]

\* The branch `if full_lines:` of lock_current_piece; g.board already
\* holds the locked piece.
LockFullLines(g, full_lines) ==
    LET scare == Head(g.rndf)
        lines == Len(full_lines)
        spin  == SpinAward(g, lines)
        combo == g.combo + 1
        base  == LINE_SCORES[Min(lines, 4) + 1] * g.level + spin.bonus
        score_gained == IF combo > 1 THEN base + 50 * combo * g.level ELSE base
        score == g.score + score_gained
        lines_cleared == g.lines_cleared + lines
        level == (lines_cleared \div 10) + 1
    IN  [g EXCEPT !.clearing_lines = full_lines,
                  !.clear_animation_timer = CLEAR_ANIMATION,
                  !.combo = combo,
                  !.rndf = Tail(g.rndf),
                  !.jump_scare_active = IF scare THEN TRUE ELSE @,
                  !.jump_scare_timer = IF scare THEN 10 ELSE @,
                  !.lines_cleared = lines_cleared,
                  !.spin_message = IF spin.name # "" THEN spin.name ELSE @,
                  !.spin_message_timer = IF spin.name # "" THEN 80 ELSE @,
                  !.score = score,
                  !.score_popup = score_gained,
                  !.score_popup_timer = 60,
                  !.high_score = IF score > g.high_score THEN score ELSE @,
                  \* max(shake_timer, 12) of the spin banner is overwritten
                  !.shake_timer = 4 + (lines * 2),
                  !.tetris_timer = IF lines >= 4 THEN 80 ELSE @,
                  !.level = level,
                  !.level_up_timer = IF level > g.level THEN 90 ELSE @,
                  !.fall_speed = calculate_fall_speed(level),
                  !.particles = @ \o NewParticles(g.board, full_lines, 1, g.spread)]

lock_current_piece_keepCombo(g) ==
    IF g.current_piece = None THEN g
    ELSE LET g1 == [g EXCEPT !.board = lock_tetromino(g.board, g.current_piece),
                             !.locks = @ + 1]
             full_lines == FullLines(g1.board)
             g2 == IF Len(full_lines) > 0 THEN LockFullLines(g1, full_lines)
                   ELSE g1
         IN  IF is_game_over(g2.board) THEN [g2 EXCEPT !.game_over = TRUE]
             ELSE IF g2.clear_animation_timer = 0 THEN spawn_new_piece(g2)
             ELSE g2

\* TetrisGame.lock_current_piece
lock_current_piece(g) ==
    IF g.current_piece = None THEN g
    ELSE LET g1 == [g EXCEPT !.board = lock_tetromino(g.board, g.current_piece),
                             !.locks = @ + 1]
             full_lines == FullLines(g1.board)
             g2 == IF Len(full_lines) > 0 THEN LockFullLines(g1, full_lines)
                   ELSE [g1 EXCEPT !.combo = 0]
         IN  IF is_game_over(g2.board) THEN [g2 EXCEPT !.game_over = TRUE]
             ELSE IF g2.clear_animation_timer = 0 THEN spawn_new_piece(g2)
             ELSE g2

hard_drop_noLock(g) ==
    IF g.current_piece = None \/ g.game_over \/ g.paused THEN g
    ELSE LET d == drop_loop(g, 0)
         IN  [d.g EXCEPT !.score = @ + d.ret * 2,
                         !.piece_on_ground = TRUE,
                         !.lock_delay_timer = LOCK_DELAY]

hard_drop_assign(g) ==
    IF g.current_piece = None \/ g.game_over \/ g.paused THEN g
    ELSE LET d == drop_loop(g, 0)
         IN  lock_current_piece([d.g EXCEPT !.score = d.ret * 2])

\* TetrisGame.hard_drop
hard_drop(g) ==
    IF g.current_piece = None \/ g.game_over \/ g.paused THEN g
    ELSE LET d == drop_loop(g, 0)
         IN  lock_current_piece([d.g EXCEPT !.score = @ + d.ret * 2])

reset_overwrite(g) ==
    spawn_new_piece(
      [g EXCEPT !.board = board_reset(g.board),
                !.high_score = g.score,
                !.score = 0,
                !.lines_cleared = (g.start_level - 1) * 10,
                !.level = g.start_level,
                !.game_over = FALSE,
                !.paused = FALSE,
                !.fall_counter = 0,
                !.fall_speed = calculate_fall_speed(g.start_level),
                !.combo = 0,
                !.clearing_lines = <<>>,
                !.clear_animation_timer = 0,
                !.level_up_timer = 0,
                !.score_popup = 0,
                !.score_popup_timer = 0,
                !.tetris_timer = 0,
                !.shake_timer = 0,
                !.particles = <<>>,
                !.lock_delay_timer = 0,
                !.piece_on_ground = FALSE,
                !.held_piece = None,
                !.can_swap = TRUE,
                !.spin_message = "",
                !.spin_message_timer = 0,
                !.last_rotation_was_spin = FALSE,
                !.jump_scare_active = FALSE,
                !.jump_scare_timer = 0,
                !.next_piece = None])

\* TetrisGame.reset
reset(g) ==
    spawn_new_piece(
      [g EXCEPT !.board = board_reset(g.board),
                !.high_score = IF g.score > g.high_score THEN g.score ELSE @,
                !.score = 0,
                !.lines_cleared = (g.start_level - 1) * 10,
                !.level = g.start_level,
                !.game_over = FALSE,
                !.paused = FALSE,
                !.fall_counter = 0,
                !.fall_speed = calculate_fall_speed(g.start_level),
                !.combo = 0,
                !.clearing_lines = <<>>,
                !.clear_animation_timer = 0,
                !.level_up_timer = 0,
                !.score_popup = 0,
                !.score_popup_timer = 0,
                !.tetris_timer = 0,
                !.shake_timer = 0,
                !.particles = <<>>,
                !.lock_delay_timer = 0,
                !.piece_on_ground = FALSE,
                !.held_piece = None,
                !.can_swap = TRUE,
                !.spin_message = "",
                !.spin_message_timer = 0,
                !.last_rotation_was_spin = FALSE,
                !.jump_scare_active = FALSE,
                !.jump_scare_timer = 0,
                !.next_piece = None])

(***************************************************************************)
(* TetrisGame.update.  keys is the set of keys for which pyxel.btnp (P, UP, *)
(* X, Z, C, SPACE) or pyxel.btn (LEFT, RIGHT, DOWN) is true this frame.    *)
(***************************************************************************)

Keys == {"P", "UP", "X", "Z", "C", "SPACE", "LEFT", "RIGHT", "DOWN"}

\* Lines 303-309: every particle ages by one and dies at life <= 0.
UpdateParticles(g) ==
    [g EXCEPT !.particles =
        SelectSeq([i \in 1..Len(g.particles) |->
                      [g.particles[i] EXCEPT !.life = @ - 1]],
                  LAMBDA p : p.life > 0)]

ClearAnimationStep_alwaysSpawn(g) ==
    LET g1 == [g EXCEPT !.clear_animation_timer = @ - 1]
    IN  IF g1.clear_animation_timer = 0
        THEN spawn_new_piece([g1 EXCEPT !.board = clear_lines(g1.board).board,
                                        !.clearing_lines = <<>>])
        ELSE g1

ClearAnimationStep_keepRows(g) ==
    LET g1 == [g EXCEPT !.clear_animation_timer = @ - 1]
    IN  IF g1.clear_animation_timer = 0
        THEN LET g2 == [g1 EXCEPT !.clearing_lines = <<>>]
             IN  IF ~g2.game_over
                 THEN spawn_new_piece([g2 EXCEPT !.board = clear_lines(g2.board).board])
                 ELSE g2
        ELSE g1

\* Lines 311-318: the body of `if self.clear_animation_timer > 0`.
ClearAnimationStep(g) ==
    LET g1 == [g EXCEPT !.clear_animation_timer = @ - 1]
    IN  IF g1.clear_animation_timer = 0
        THEN LET g2 == [g1 EXCEPT !.board = clear_lines(g1.board).board,
                                  !.clearing_lines = <<>>]
             IN  IF ~g2.game_over THEN spawn_new_piece(g2) ELSE g2
        ELSE g1

Dec_twice(t) == IF t > 1 THEN t - 2 ELSE 0

Dec(t) == IF t > 0 THEN t - 1 ELSE t

\* Lines 320-336: the display timers count down to 0.
DecayTimers(g) ==
    [g EXCEPT !.level_up_timer = Dec(@),
              !.score_popup_timer = Dec(@),
              !.tetris_timer = Dec(@),
              !.shake_timer = Dec(@),
              !.spin_message_timer = Dec(@),
              !.jump_scare_timer = Dec(@)]

RotateHoldStep_perKey(g, keys) ==
    LET g0 == IF "UP" \in keys THEN rotate_piece(g, TRUE) ELSE g
        g1 == IF "X" \in keys THEN rotate_piece(g0, TRUE) ELSE g0
        g2 == IF "Z" \in keys THEN rotate_piece(g1, FALSE) ELSE g1
    IN  IF "C" \in keys THEN hold_piece(g2) ELSE g2

\* Lines 347-353: the rotations and the hold of this frame.
RotateHoldStep(g, keys) ==
    LET g1 == IF "UP" \in keys \/ "X" \in keys THEN rotate_piece(g, TRUE) ELSE g
        g2 == IF "Z" \in keys THEN rotate_piece(g1, FALSE) ELSE g1
    IN  IF "C" \in keys THEN hold_piece(g2) ELSE g2

\* The auto-repeat test of lines 361-363 and 370-372.
RepeatDue(counter) ==
    counter = 1 \/ (counter > INITIAL_MOVE_DELAY /\ counter % MOVE_DELAY = 0)

\* Lines 359-375: held LEFT, then held RIGHT.
HorizontalStep(g, keys) ==
    LET g1 == IF "LEFT" \in keys
              THEN LET c == [g EXCEPT !.move_left_counter = @ + 1]
                   IN  IF RepeatDue(c.move_left_counter)
                       THEN move_piece(c, -1, 0).g ELSE c
              ELSE [g EXCEPT !.move_left_counter = 0]
    IN  IF "RIGHT" \in keys
        THEN LET c == [g1 EXCEPT !.move_right_counter = @ + 1]
             IN  IF RepeatDue(c.move_right_counter)
                 THEN move_piece(c, 1, 0).g ELSE c
        ELSE [g1 EXCEPT !.move_right_counter = 0]

Ground_rearm(g) ==
    [g EXCEPT !.piece_on_ground = TRUE, !.lock_delay_timer = LOCK_DELAY]

\* The else branch of a failed downward step (lines 381-383, 396-398).
Ground(g) ==
    IF ~g.piece_on_ground
    THEN [g EXCEPT !.piece_on_ground = TRUE, !.lock_delay_timer = LOCK_DELAY]
    ELSE g

\* Lines 377-387: held DOWN.
SoftDropStep(g, keys) ==
    IF "DOWN" \in keys
    THEN LET c == [g EXCEPT !.move_down_counter = @ + 1]
         IN  IF c.move_down_counter % Max(2, c.fall_speed \div 10) = 0
             THEN LET m == move_piece(c, 0, 1)
                  IN  IF ~m.ret THEN Ground(m.g)
                      ELSE [m.g EXCEPT !.score = @ + 1]
             ELSE c
    ELSE [g EXCEPT !.move_down_counter = 0]

\* Lines 389-398: gravity.
GravityStep(g) ==
    LET c == [g EXCEPT !.fall_counter = @ + 1]
    IN  IF c.fall_counter >= c.fall_speed
        THEN LET m == move_piece([c EXCEPT !.fall_counter = 0], 0, 1)
             IN  IF m.ret
                 THEN [m.g EXCEPT !.piece_on_ground = FALSE, !.lock_delay_timer = 0]
                 ELSE Ground(m.g)
        ELSE c

LockDelayStep_late(g) ==
    IF g.piece_on_ground
    THEN LET c == [g EXCEPT !.lock_delay_timer = @ - 1]
         IN  IF c.lock_delay_timer < 0 THEN lock_current_piece(c) ELSE c
    ELSE g

\* Lines 400-403: the lock-delay countdown.
LockDelayStep(g) ==
    IF g.piece_on_ground
    THEN LET c == [g EXCEPT !.lock_delay_timer = @ - 1]
         IN  IF c.lock_delay_timer <= 0 THEN lock_current_piece(c) ELSE c
    ELSE g

update_noReturn(g, keys) ==
    LET g0 == UpdateParticles(g)
        ga == IF g0.clear_animation_timer > 0 THEN ClearAnimationStep(g0) ELSE g0
        g1 == DecayTimers(ga)
    IN  IF g1.game_over THEN g1
        ELSE LET g2 == IF "P" \in keys
                       THEN [g1 EXCEPT !.paused = ~g1.paused] ELSE g1
             IN  IF g2.paused THEN g2
                 ELSE LET g3 == RotateHoldStep(g2, keys)
                      IN  IF "SPACE" \in keys THEN hard_drop(g3)
                          ELSE LockDelayStep(GravityStep(
                                 SoftDropStep(HorizontalStep(g3, keys), keys)))

\* TetrisGame.update
update(g, keys) ==
    LET g0 == UpdateParticles(g)
    IN  IF g0.clear_animation_timer > 0 THEN ClearAnimationStep(g0)
        ELSE LET g1 == DecayTimers(g0)
             IN  IF g1.game_over THEN g1
                 ELSE LET g2 == IF "P" \in keys
                                THEN [g1 EXCEPT !.paused = ~g1.paused] ELSE g1
                      IN  IF g2.paused THEN g2
                          ELSE LET g3 == RotateHoldStep(g2, keys)
                               IN  IF "SPACE" \in keys THEN hard_drop(g3)
                                   ELSE LockDelayStep(GravityStep(
                                          SoftDropStep(HorizontalStep(g3, keys), keys)))

(***************************************************************************)
(* The state: the fields of the TetrisGame object (its Board in `board`)   *)
(* and the history of the run: `locks` and `resets` count the calls of     *)
(* lock_current_piece and of reset, `calls` the methods called directly    *)
(* since the program last acted, `last_op`, `args` and `ret` are the last   *)
(* call made on the object with its arguments and returned value,          *)
(* `rot_start` and `rot_net` are the rotation index a piece started with   *)
(* and its clockwise minus counterclockwise turns since, `piece_before` is *)
(* the active piece as it was when an observed call of move_piece or of    *)
(* rotate_piece was made (None after any other call), `twin` is a second   *)
(* game object, run beside the first one in SpecTwin only, `tally` is what *)
(* SpecGround, SpecRepeat and SpecLines count over a run (ticks since the  *)
(* piece was grounded, ticks a key was held, rows removed from the board). *)
(***************************************************************************)

VARIABLES
    board, current_piece, next_piece, held_piece, can_swap, score,
    high_score, start_level, lines_cleared, level, game_over, paused,
    combo, clearing_lines, clear_animation_timer, level_up_timer,
    score_popup, score_popup_timer, tetris_timer, shake_timer, particles,
    spin_message, spin_message_timer, last_rotation_was_spin,
    jump_scare_active, jump_scare_timer, fall_counter, fall_speed,
    move_left_counter, move_right_counter, move_down_counter,
    lock_delay_timer, piece_on_ground, locks, resets, calls, last_op, args,
    ret, rot_start, rot_net, piece_before, twin, tally

gameVars ==
    <<board, current_piece, next_piece, held_piece, can_swap, score,
      high_score, start_level, lines_cleared, level, game_over, paused,
      combo, clearing_lines, clear_animation_timer, level_up_timer,
      score_popup, score_popup_timer, tetris_timer, shake_timer, particles,
      spin_message, spin_message_timer, last_rotation_was_spin,
      jump_scare_active, jump_scare_timer, fall_counter, fall_speed,
      move_left_counter, move_right_counter, move_down_counter,
      lock_delay_timer, piece_on_ground, locks>>

vars ==
    <<gameVars, resets, calls, last_op, args, ret, rot_start, rot_net,
      piece_before, twin, tally>>

\* The object as a record, with the environment's upcoming draws.
Self(draws, rndf) ==
    [board |-> board,
     current_piece |-> current_piece,
     next_piece |-> next_piece,
     held_piece |-> held_piece,
     can_swap |-> can_swap,
     score |-> score,
     high_score |-> high_score,
     start_level |-> start_level,
     lines_cleared |-> lines_cleared,
     level |-> level,
     game_over |-> game_over,
     paused |-> paused,
     combo |-> combo,
     clearing_lines |-> clearing_lines,
     clear_animation_timer |-> clear_animation_timer,
     level_up_timer |-> level_up_timer,
     score_popup |-> score_popup,
     score_popup_timer |-> score_popup_timer,
     tetris_timer |-> tetris_timer,
     shake_timer |-> shake_timer,
     particles |-> particles,
     spin_message |-> spin_message,
     spin_message_timer |-> spin_message_timer,
     last_rotation_was_spin |-> last_rotation_was_spin,
     jump_scare_active |-> jump_scare_active,
     jump_scare_timer |-> jump_scare_timer,
     fall_counter |-> fall_counter,
     fall_speed |-> fall_speed,
     move_left_counter |-> move_left_counter,
     move_right_counter |-> move_right_counter,
     move_down_counter |-> move_down_counter,
     lock_delay_timer |-> lock_delay_timer,
     piece_on_ground |-> piece_on_ground,
     locks |-> locks,
     draws |-> draws,
     rndf |-> rndf,
     spread |-> NoSpread]

\* The object's fields become those of g.
Commit(g) ==
    /\ board' = g.board
    /\ current_piece' = g.current_piece
    /\ next_piece' = g.next_piece
    /\ held_piece' = g.held_piece
    /\ can_swap' = g.can_swap
    /\ score' = g.score
    /\ high_score' = g.high_score
    /\ start_level' = g.start_level
    /\ lines_cleared' = g.lines_cleared
    /\ level' = g.level
    /\ game_over' = g.game_over
    /\ paused' = g.paused
    /\ combo' = g.combo
    /\ clearing_lines' = g.clearing_lines
    /\ clear_animation_timer' = g.clear_animation_timer
    /\ level_up_timer' = g.level_up_timer
    /\ score_popup' = g.score_popup
    /\ score_popup_timer' = g.score_popup_timer
    /\ tetris_timer' = g.tetris_timer
    /\ shake_timer' = g.shake_timer
    /\ particles' = g.particles
    /\ spin_message' = g.spin_message
    /\ spin_message_timer' = g.spin_message_timer
    /\ last_rotation_was_spin' = g.last_rotation_was_spin
    /\ jump_scare_active' = g.jump_scare_active
    /\ jump_scare_timer' = g.jump_scare_timer
    /\ fall_counter' = g.fall_counter
    /\ fall_speed' = g.fall_speed
    /\ move_left_counter' = g.move_left_counter
    /\ move_right_counter' = g.move_right_counter
    /\ move_down_counter' = g.move_down_counter
    /\ lock_delay_timer' = g.lock_delay_timer
    /\ piece_on_ground' = g.piece_on_ground
    /\ locks' = g.locks

\* The object's fields are those of g.
IsGame(g) ==
    /\ board = g.board
    /\ current_piece = g.current_piece
    /\ next_piece = g.next_piece
    /\ held_piece = g.held_piece
    /\ can_swap = g.can_swap
    /\ score = g.score
    /\ high_score = g.high_score
    /\ start_level = g.start_level
    /\ lines_cleared = g.lines_cleared
    /\ level = g.level
    /\ game_over = g.game_over
    /\ paused = g.paused
    /\ combo = g.combo
    /\ clearing_lines = g.clearing_lines
    /\ clear_animation_timer = g.clear_animation_timer
    /\ level_up_timer = g.level_up_timer
    /\ score_popup = g.score_popup
    /\ score_popup_timer = g.score_popup_timer
    /\ tetris_timer = g.tetris_timer
    /\ shake_timer = g.shake_timer
    /\ particles = g.particles
    /\ spin_message = g.spin_message
    /\ spin_message_timer = g.spin_message_timer
    /\ last_rotation_was_spin = g.last_rotation_was_spin
    /\ jump_scare_active = g.jump_scare_active
    /\ jump_scare_timer = g.jump_scare_timer
    /\ fall_counter = g.fall_counter
    /\ fall_speed = g.fall_speed
    /\ move_left_counter = g.move_left_counter
    /\ move_right_counter = g.move_right_counter
    /\ move_down_counter = g.move_down_counter
    /\ lock_delay_timer = g.lock_delay_timer
    /\ piece_on_ground = g.piece_on_ground
    /\ locks = g.locks

\* No call has been made yet.
NoHistory ==
    /\ resets = 0
    /\ calls = 0
    /\ last_op = "__init__"
    /\ args = <<>>
    /\ ret = <<>>
    /\ rot_start = 0
    /\ rot_net = 0
    /\ piece_before = None
    /\ twin = <<>>
    /\ tally = <<>>

\* Direct calls are counted up to MaxCalls.
MaxCalls == 2

\* A call named op with arguments a returned r; the run's tally is set by
\* the caller.
Logged(op, a, r) ==
    /\ last_op' = op
    /\ args' = a
    /\ ret' = r
    /\ calls' = IF op \in {"update", "reset"} THEN 0 ELSE Min(calls + 1, MaxCalls)
    /\ piece_before' = None
    /\ UNCHANGED <<rot_start, rot_net, twin>>

\* A call named op with arguments a returned r.
Called(op, a, r) == Logged(op, a, r) /\ UNCHANGED tally

\* n draws of random.choice among `types`, padded to the two a call can
\* consume.
DrawsFor(n, types) ==
    {<<a, b>> : a \in (IF n >= 1 THEN types ELSE {"I"}),
                b \in (IF n >= 2 THEN types ELSE {"I"})}

\* n outcomes of pyxel.rndf(0, 1) < 0.05, padded to the one a call can consume.
RndfFor(n) == {<<a>> : a \in (IF n >= 1 THEN BOOLEAN ELSE {FALSE})}

\* What a call consumed of the environment's draws.
DrawsUsed(g) == 2 - Len(g.draws)
RndfUsed(g) == 1 - Len(g.rndf)

\* The key sets of one frame with at most n keys down.
KeySets(n) == {ks \in SUBSET Keys : Cardinality(ks) <= n}

(***************************************************************************)
(* Spec: the game as main.py drives it.  The constructor, then update()    *)
(* once per frame with any keys, and reset() when R is pressed.            *)
(***************************************************************************)

\* Bounds of the exploration: locks and resets together, keys down in one
\* frame, frames a direction key stays down, frames followed after a row
\* clear (the score popup counts them down from 60).
MaxLocks == 1
MaxKeys == 1
MaxHold == 1
MaxSoftDrop == 2
MaxAfterClear == 2
SCORE_POPUP == 60

\* The constructor arguments <<board_width, board_height, start_level>>.
GameConfigs == {<<4, 4, 30>>}

\* The shape types random.choice returns in this exploration.
GameShapes == {"I", "T"}

WithinBounds(g, maxLocks, maxDown) ==
    /\ g.locks + resets <= maxLocks
    /\ g.move_left_counter <= MaxHold
    /\ g.move_right_counter <= MaxHold
    /\ g.move_down_counter <= maxDown
    /\ (g.score_popup_timer = 0 \/ g.score_popup_timer >= SCORE_POPUP - MaxAfterClear)

\* TetrisGame(width, height, start_level) with the pieces it draws.
Construct(configs, types) ==
    \E c \in configs, d \in DrawsFor(2, types) :
        IsGame(TetrisGame(c[1], c[2], c[3], d, <<FALSE>>))

\* One frame: self.game.update() with the keys of the frame.
Frame(keysets, types, maxLocks, maxDown) ==
    \E keys \in keysets :
        \E probe \in {update(Self(<<"I", "I">>, <<FALSE>>), keys)} :
            \E d \in DrawsFor(DrawsUsed(probe), types), r \in RndfFor(RndfUsed(probe)) :
                \E g \in {update(Self(d, r), keys)} :
                    /\ WithinBounds(g, maxLocks, maxDown)
                    /\ Commit(g)
                    /\ UNCHANGED resets
                    /\ Called("update", <<>>, <<>>)

\* One frame as in Frame, the keys of the frame recorded in `args`; the
\* run's tally is set by the specification that uses it.
FrameKeyed(keysets, types, maxLocks, maxDown) ==
    \E keys \in keysets :
        \E probe \in {update(Self(<<"I", "I">>, <<FALSE>>), keys)} :
            \E d \in DrawsFor(DrawsUsed(probe), types), r \in RndfFor(RndfUsed(probe)) :
                \E g \in {update(Self(d, r), keys)} :
                    /\ WithinBounds(g, maxLocks, maxDown)
                    /\ Commit(g)
                    /\ UNCHANGED resets
                    /\ Logged("update", <<keys>>, <<>>)

\* TetrisGame(width, height, start_level) with the pieces it draws, no call
\* made yet and the run's tally at t.
ConstructTallied(configs, types, t) ==
    /\ Construct(configs, types)
    /\ resets = 0
    /\ calls = 0
    /\ last_op = "__init__"
    /\ args = <<>>
    /\ ret = <<>>
    /\ rot_start = 0
    /\ rot_net = 0
    /\ piece_before = None
    /\ twin = <<>>
    /\ tally = t

\* R pressed: self.game.reset().
ResetGame(types, maxLocks) ==
    /\ locks + resets < maxLocks
    /\ \E d \in DrawsFor(2, types) :
          \E g \in {reset(Self(d, <<FALSE>>))} :
              /\ Commit(g)
              /\ resets' = resets + 1
              /\ Called("reset", <<>>, <<>>)

Init == Construct(GameConfigs, GameShapes) /\ NoHistory

Update == Frame(KeySets(MaxKeys), GameShapes, MaxLocks, MaxSoftDrop)

Reset == ResetGame(GameShapes, MaxLocks)

Next == Update \/ Reset

Spec == Init /\ [][Next]_vars

(***************************************************************************)
(* SpecClear: Board.clear_lines applied to every board content of a small  *)
(* grid.                                                                   *)
(***************************************************************************)

ClearWidth == 2
ClearHeight == 4

\* Every grid of the given size whose cells are empty or of one colour.
Grids(width, height) == [1..height -> [1..width -> {0, COLORS.I}]]

Boards(width, height) ==
    {[width |-> width, height |-> height, grid |-> gr] : gr \in Grids(width, height)}

\* A freshly constructed game, the frame in which a board or a piece is put.
Fresh(width, height) == TetrisGame(width, height, 1, <<"I", "I">>, <<FALSE>>)

InitClear ==
    /\ \E b \in Boards(ClearWidth, ClearHeight) :
          IsGame([Fresh(ClearWidth, ClearHeight) EXCEPT !.board = b])
    /\ NoHistory

\* self.board.clear_lines()
ClearLines ==
    /\ last_op = "__init__"
    /\ \E c \in {clear_lines(board)} :
          /\ Commit([Self(<<>>, <<>>) EXCEPT !.board = c.board])
          /\ last_op' = "clear_lines"
          /\ args' = <<board>>
          /\ ret' = <<c.ret>>
    /\ UNCHANGED <<resets, calls, rot_start, rot_net, piece_before, twin, tally>>

SpecClear == InitClear /\ [][ClearLines]_vars

\* The rows of a grid with at least one empty cell, in their order.
NotFullRows(gr) == SelectSeq(gr, LAMBDA row : \E x \in 1..Len(row) : row[x] = 0)

\* The number of rows of a grid with no empty cell.
NumFullRows(gr) ==
    Cardinality({y \in 1..Len(gr) : \A x \in 1..Len(gr[y]) : gr[y][x] # 0})

\* C1: for every board content, clear_lines removes exactly the rows whose
\* cells are all non-empty, puts as many empty rows on top, keeps the other
\* rows in their order, keeps the grid at height rows of width cells and
\* returns the number of rows that were full before the call.
C1_ClearLines ==
    last_op = "clear_lines" =>
        LET before == args[1]
            n == NumFullRows(before.grid)
        IN  /\ ret = <<n>>
            /\ board.grid = [i \in 1..n |-> [x \in 1..before.width |-> 0]]
                              \o NotFullRows(before.grid)
            /\ board.width = before.width
            /\ board.height = before.height
            /\ Len(board.grid) = before.height
            /\ \A y \in 1..Len(board.grid) : Len(board.grid[y]) = before.width

\* Two adjacent full rows under a part-filled row were cleared.
C1_Witness ==
    /\ last_op = "clear_lines"
    /\ RowFull(args[1], ClearHeight - 1)
    /\ RowFull(args[1], ClearHeight - 2)
    /\ args[1].grid[ClearHeight - 2] = <<COLORS.I, 0>>
    /\ ret = <<2>>
    /\ board.grid[ClearHeight] = <<COLORS.I, 0>>

(***************************************************************************)
(* SpecValid: Board.is_valid_position applied to every piece, rotation and *)
(* position over every content of a small grid.                            *)
(***************************************************************************)

ValidWidth == 2
ValidHeight == 3

\* Every tetromino with its box at x in -2..width and y in -3..height.
Pieces(width, height) ==
    {[shape_type |-> s, rotation_index |-> r, x |-> x, y |-> y] :
        s \in ShapeTypes, r \in 0..3, x \in (0 - 2)..width, y \in (0 - 3)..height}
    \ {t \in [shape_type : ShapeTypes, rotation_index : 0..3,
              x : (0 - 2)..width, y : (0 - 3)..height] :
          t.rotation_index >= Len(SHAPES[t.shape_type])}

InitValid ==
    /\ \E b \in Boards(ValidWidth, ValidHeight), t \in Pieces(ValidWidth, ValidHeight) :
          IsGame([Fresh(ValidWidth, ValidHeight) EXCEPT !.board = b, !.current_piece = t])
    /\ NoHistory

\* self.board.is_valid_position(self.current_piece)
IsValidPosition ==
    /\ last_op = "__init__"
    /\ last_op' = "is_valid_position"
    /\ args' = <<>>
    /\ ret' = <<is_valid_position(board, current_piece)>>
    /\ UNCHANGED <<gameVars, resets, calls, rot_start, rot_net, piece_before, twin, tally>>

SpecValid == InitValid /\ [][IsValidPosition]_vars

\* The cells <<x, y>> at which the piece's rotation state has a 1.
OccupiedCells(t) ==
    {<<t.x + c, t.y + r>> : <<r, c>> \in
        {rc \in (0..3) \X (0..3) :
            SHAPES[t.shape_type][t.rotation_index + 1][rc[1] + 1][rc[2] + 1] = 1}}

OutOfBounds(b, cell) == cell[1] < 0 \/ cell[1] >= b.width \/ cell[2] >= b.height

Overlaps(b, cell) == cell[2] >= 0 /\ b.grid[cell[2] + 1][cell[1] + 1] # 0

\* C2: is_valid_position is false whenever an occupied cell of the piece has
\* x < 0, x >= width or y >= height, whatever the board holds; otherwise it
\* is true exactly when no occupied cell with y >= 0 lies on a non-empty grid
\* cell; for all seven shapes and all their rotation indices.
C2_IsValidPosition ==
    last_op = "is_valid_position" =>
        ret = <<IF \E cell \in OccupiedCells(current_piece) : OutOfBounds(board, cell)
                THEN FALSE
                ELSE ~\E cell \in OccupiedCells(current_piece) : Overlaps(board, cell)>>

\* A piece reaching above the grid was found valid on a grid that is not empty.
C2_Witness ==
    /\ last_op = "is_valid_position"
    /\ ret = <<TRUE>>
    /\ \E cell \in OccupiedCells(current_piece) : cell[2] < 0
    /\ \E y \in 1..ValidHeight, x \in 1..ValidWidth : board.grid[y][x] # 0

(***************************************************************************)
(* SpecRotate: a tetromino of every shape in every rotation state turned   *)
(* clockwise some times and then counterclockwise.                         *)
(***************************************************************************)

MaxTurns == 5

InitRotate ==
    /\ \E s \in ShapeTypes :
          \E r \in 0..(Len(SHAPES[s]) - 1) :
              /\ IsGame([Fresh(4, 4) EXCEPT
                            !.current_piece = [Tetromino(s, 0, 0) EXCEPT !.rotation_index = r]])
              /\ rot_start = r
    /\ resets = 0
    /\ calls = 0
    /\ last_op = "__init__"
    /\ args = <<>>
    /\ ret = <<>>
    /\ rot_net = 0
    /\ piece_before = None
    /\ twin = <<>>
    /\ tally = <<>>

\* self.current_piece.rotate_clockwise()
RotateClockwise ==
    /\ last_op \in {"__init__", "rotate_clockwise"}
    /\ rot_net < MaxTurns
    /\ Commit([Self(<<>>, <<>>) EXCEPT !.current_piece = rotate_clockwise(current_piece)])
    /\ rot_net' = rot_net + 1
    /\ last_op' = "rotate_clockwise"
    /\ UNCHANGED <<resets, calls, args, ret, rot_start, piece_before, twin, tally>>

\* self.current_piece.rotate_counterclockwise()
RotateCounterclockwise ==
    /\ rot_net > 0
    /\ Commit([Self(<<>>, <<>>) EXCEPT
                  !.current_piece = rotate_counterclockwise(current_piece)])
    /\ rot_net' = rot_net - 1
    /\ last_op' = "rotate_counterclockwise"
    /\ UNCHANGED <<resets, calls, args, ret, rot_start, piece_before, twin, tally>>

NextRotate == RotateClockwise \/ RotateCounterclockwise

SpecRotate == InitRotate /\ [][NextRotate]_vars

\* C5: for every shape, k clockwise turns followed by k counterclockwise
\* turns bring rotation_index back to its original value, and after every
\* turn rotation_index is in [0, number of rotation states of the shape).
C5_RotationRoundTrip ==
    /\ current_piece.rotation_index \in 0..(Len(SHAPES[current_piece.shape_type]) - 1)
    /\ (last_op = "rotate_counterclockwise" /\ rot_net = 0)
          => current_piece.rotation_index = rot_start

\* A T turned clockwise past its last rotation state and all the way back.
C5_Witness ==
    /\ last_op = "rotate_counterclockwise"
    /\ rot_net = 0
    /\ current_piece.shape_type = "T"
    /\ rot_start = 3
    /\ current_piece.rotation_index = 3

(***************************************************************************)
(* Claims on Spec.                                                         *)
(***************************************************************************)

\* C3: score never decreases over update ticks, whatever the inputs; only
\* reset() lowers it, to 0.
C3_ScoreNeverDecreases ==
    [][/\ last_op' = "update" => score' >= score
       /\ last_op' = "reset" => score' = 0]_vars

\* A soft-dropped piece completed a row: both ways of scoring have acted.
C3_Witness ==
    /\ last_op = "update"
    /\ locks = 1
    /\ clear_animation_timer > 0
    /\ score = 1 + LINE_SCORES[2] * 30

(***************************************************************************)
(* SpecStack: the game played with the keys that place pieces (rotate,     *)
(* left, right, hard drop) until it is over and with any key afterwards,   *)
(* followed over more locks than Spec.                                     *)
(***************************************************************************)

MaxStackLocks == 3

StackKeys == {{}, {"UP"}, {"LEFT"}, {"RIGHT"}, {"SPACE"}}

InitStack == Construct(GameConfigs, GameShapes) /\ NoHistory

UpdateStack ==
    Frame(IF game_over THEN KeySets(MaxKeys) ELSE StackKeys, GameShapes,
          MaxStackLocks, MaxSoftDrop)

ResetStack == ResetGame(GameShapes, MaxStackLocks)

NextStack == UpdateStack \/ ResetStack

SpecStack == InitStack /\ [][NextStack]_vars

\* The original statement of C9: once the game is over every update tick
\* leaves it over and leaves the board grid, the active piece, score,
\* lines_cleared and level unchanged.
C9_Original ==
    [][(game_over /\ last_op' = "update") =>
          /\ game_over'
          /\ board' = board
          /\ current_piece' = current_piece
          /\ score' = score
          /\ lines_cleared' = lines_cleared
          /\ level' = level]_vars

\* C9 (amended): once game_over is true only reset() makes it false, and
\* every update tick of a game that is over leaves the active piece, score,
\* lines_cleared and level unchanged; it leaves the board grid unchanged
\* too, except the tick that ends a clear animation started by the lock that
\* ended the game, which removes the completed rows.
C9_GameOverFrozen ==
    [][/\ (game_over /\ last_op' # "reset") => game_over'
       /\ (game_over /\ last_op' = "update") =>
             /\ current_piece' = current_piece
             /\ score' = score
             /\ lines_cleared' = lines_cleared
             /\ level' = level
             /\ board'.width = board.width
             /\ board'.height = board.height
             /\ board'.grid =
                   IF clear_animation_timer = 1
                   THEN [i \in 1..NumFullRows(board.grid) |-> EmptyRow(board.width)]
                           \o NotFullRows(board.grid)
                   ELSE board.grid]_vars

\* The game ended by a lock that completed a row, and the tick that ended
\* the clear animation has removed the row.
C9_Witness ==
    /\ game_over
    /\ last_op = "update"
    /\ clear_animation_timer = 0
    /\ score_popup_timer = SCORE_POPUP
    /\ lines_cleared = (30 - 1) * 10 + 1

(***************************************************************************)
(* Direct calls of the methods of TetrisGame, as a client other than       *)
(* update() would make them.                                               *)
(***************************************************************************)

\* The object is where the program (constructor, update, reset) left it.
ByProgram == calls = 0

\* self.move_piece(dx, dy)
MovePiece(dx, dy) ==
    \E m \in {move_piece(Self(<<>>, <<>>), dx, dy)} :
        /\ Commit(m.g)
        /\ UNCHANGED resets
        /\ Called("move_piece", <<dx, dy>>, <<m.ret>>)

\* self.rotate_piece(clockwise)
RotatePiece(clockwise) ==
    \E g \in {rotate_piece(Self(<<>>, <<>>), clockwise)} :
        /\ Commit(g)
        /\ UNCHANGED resets
        /\ Called("rotate_piece", <<clockwise>>, <<>>)

\* self.spawn_new_piece()
SpawnNewPiece(types) ==
    \E d \in DrawsFor(1, types) :
        \E g \in {spawn_new_piece(Self(d, <<>>))} :
            /\ Commit(g)
            /\ UNCHANGED resets
            /\ Called("spawn_new_piece", <<>>, <<>>)

\* self.hold_piece()
HoldPiece(types) ==
    \E probe \in {hold_piece(Self(<<"I", "I">>, <<>>))} :
        \E d \in DrawsFor(DrawsUsed(probe), types) :
            \E g \in {hold_piece(Self(d, <<>>))} :
                /\ Commit(g)
                /\ UNCHANGED resets
                /\ Called("hold_piece", <<>>, <<>>)

\* self.lock_current_piece()
LockCurrentPiece(types) ==
    \E probe \in {lock_current_piece(Self(<<"I", "I">>, <<FALSE>>))} :
        \E d \in DrawsFor(DrawsUsed(probe), types), r \in RndfFor(RndfUsed(probe)) :
            \E g \in {lock_current_piece(Self(d, r))} :
                /\ Commit(g)
                /\ UNCHANGED resets
                /\ Called("lock_current_piece", <<>>, <<>>)

(***************************************************************************)
(* SpecCalls: the game as main.py drives it, and in any state it reaches   *)
(* one direct call of move_piece(0, 0), of spawn_new_piece() or of         *)
(* hold_piece(), or two of hold_piece().  The game is not followed after   *)
(* a direct call.                                                          *)
(***************************************************************************)

InitCalls == Construct(GameConfigs, GameShapes) /\ NoHistory

UpdateCalls ==
    ByProgram /\ Frame(KeySets(MaxKeys), GameShapes, MaxLocks, MaxSoftDrop)

MoveNowhere == ByProgram /\ MovePiece(0, 0)

SpawnCall == ByProgram /\ SpawnNewPiece(GameShapes)

HoldCall == (ByProgram \/ (calls = 1 /\ last_op = "hold_piece")) /\ HoldPiece(GameShapes)

NextCalls == UpdateCalls \/ MoveNowhere \/ SpawnCall \/ HoldCall

SpecCalls == InitCalls /\ [][NextCalls]_vars

\* No occupied cell of the piece is outside the grid or on a non-empty cell.
Fits(b, t) ==
    \A cell \in OccupiedCells(t) : ~OutOfBounds(b, cell) /\ ~Overlaps(b, cell)

\* The original statement of C4: move_piece(0, 0) returns True and leaves
\* lock_delay_timer and piece_on_ground as they were, in every reachable
\* state.
C4_Original ==
    [][(last_op' = "move_piece" /\ args' = <<0, 0>>) =>
          /\ ret' = <<TRUE>>
          /\ lock_delay_timer' = lock_delay_timer
          /\ piece_on_ground' = piece_on_ground]_vars

\* C4 (amended): move_piece(0, 0) returns True exactly when the game is
\* neither over nor paused and the active piece fits the board where it is;
\* it never moves the piece and never changes piece_on_ground; it leaves
\* lock_delay_timer as it was unless it returns True while the piece is on
\* the ground, and then sets it to min(lock_delay_timer + 5, 15).
C4_MoveNowhere ==
    [][(last_op' = "move_piece" /\ args' = <<0, 0>>) =>
          /\ ret' = <<~game_over /\ ~paused /\ Fits(board, current_piece)>>
          /\ current_piece' = current_piece
          /\ piece_on_ground' = piece_on_ground
          /\ lock_delay_timer' =
                IF ret' = <<TRUE>> /\ piece_on_ground
                THEN Min(lock_delay_timer + LOCK_DELAY_EXTENSION, LOCK_DELAY)
                ELSE lock_delay_timer]_vars

\* move_piece(0, 0) succeeded on a piece on the ground, whose lock delay is
\* back at its maximum.
C4_Witness ==
    /\ last_op = "move_piece"
    /\ args = <<0, 0>>
    /\ ret = <<TRUE>>
    /\ piece_on_ground
    /\ lock_delay_timer = LOCK_DELAY

\* C8: spawn_new_piece makes the previous next piece the active piece at
\* x = width // 2 - 2, y = 0 with rotation index 0, creates a new next
\* piece, sets lock_delay_timer = 0, piece_on_ground = false, can_swap = true
\* and the spin flag false, and sets game_over exactly when that position is
\* invalid against the board, never clearing it.
C8_SpawnNewPiece ==
    [][last_op' = "spawn_new_piece" =>
          /\ current_piece' = [shape_type |-> next_piece.shape_type,
                               rotation_index |-> 0,
                               x |-> (board.width \div 2) - 2,
                               y |-> 0]
          /\ next_piece' \in {[shape_type |-> s, rotation_index |-> 0, x |-> 3, y |-> 0] :
                                s \in ShapeTypes}
          /\ lock_delay_timer' = 0
          /\ piece_on_ground' = FALSE
          /\ can_swap' = TRUE
          /\ last_rotation_was_spin' = FALSE
          /\ board' = board
          /\ game_over' = (game_over \/ ~Fits(board, current_piece'))]_vars

\* A direct spawn onto a locked piece ended a game that was paused.
C8_Witness ==
    /\ last_op = "spawn_new_piece"
    /\ paused
    /\ game_over
    /\ locks = 1
    /\ ~Fits(board, current_piece)
    /\ current_piece.y = 0

\* C10: with no piece held, the game not over and not paused, hold_piece
\* stores the active piece's type as the held piece, makes the previous next
\* piece the active piece at the spawn position and sets can_swap to false;
\* a further hold_piece before the next spawn caused by a lock (can_swap is
\* false until then) changes nothing at all.
C10_HoldPiece ==
    [][last_op' = "hold_piece" =>
          /\ (held_piece = None /\ ~game_over /\ ~paused) =>
                /\ held_piece' # None
                /\ held_piece'.shape_type = current_piece.shape_type
                /\ current_piece' = [shape_type |-> next_piece.shape_type,
                                     rotation_index |-> 0,
                                     x |-> (board.width \div 2) - 2,
                                     y |-> 0]
                /\ can_swap' = FALSE
          /\ ~can_swap => UNCHANGED gameVars]_vars

\* A T was held from a fresh game and hold_piece was called again.
C10_Witness ==
    /\ last_op = "hold_piece"
    /\ calls = 2
    /\ locks = 0
    /\ held_piece # None
    /\ held_piece.shape_type = "T"
    /\ current_piece.y = 0
    /\ ~can_swap

(***************************************************************************)
(* SpecLock: lock_current_piece(), in two explorations.  On the board of   *)
(* DeepConfig a level-1 game of I pieces is played by update() with rotate *)
(* and hard drop, far enough to clear ten rows, and lock_current_piece()   *)
(* is also called directly, once, in any state the game reaches.  On the   *)
(* board of FreeConfig a client calls move_piece (right or down),          *)
(* rotate_piece, hold_piece and lock_current_piece in any order on a game  *)
(* of T and I pieces, which update() never touches: completed rows stay on *)
(* the board.                                                              *)
(***************************************************************************)

DeepConfig == <<4, 6, 1>>
FreeConfig == <<4, 7, 2>>

MaxDeepLocks == 11
MaxIdle == 2
MaxFreeLocks == 3

DeepKeys == {{"UP"}, {"SPACE"}}

FreeShapes == {"I", "T"}

Deep == <<board.width, board.height, start_level>> = DeepConfig
Free == <<board.width, board.height, start_level>> = FreeConfig

InitLock ==
    /\ \/ Construct({DeepConfig}, {"I"})
       \/ Construct({FreeConfig}, FreeShapes)
    /\ NoHistory

UpdateDeep ==
    /\ Deep
    /\ ByProgram
    /\ Frame(DeepKeys, {"I"}, MaxDeepLocks, MaxSoftDrop)
    /\ fall_counter' <= MaxIdle

LockDeep == Deep /\ ByProgram /\ LockCurrentPiece({"I"})

MoveFree ==
    /\ Free
    /\ locks < MaxFreeLocks
    /\ \E d \in {<<1, 0>>, <<0, 1>>} : MovePiece(d[1], d[2])

RotateFree == Free /\ locks < MaxFreeLocks /\ RotatePiece(TRUE)

HoldFree == Free /\ locks < MaxFreeLocks /\ HoldPiece(FreeShapes)

LockFree == Free /\ locks < MaxFreeLocks /\ LockCurrentPiece(FreeShapes)

NextLock == UpdateDeep \/ LockDeep \/ MoveFree \/ RotateFree \/ HoldFree \/ LockFree

SpecLock == InitLock /\ [][NextLock]_vars

\* The score a lock completing n rows adds, by the claim: table[min(n, 4)] * L
\* + spinBonus + comboBonus, with the level, combo, spin flag and shape of
\* before the lock.
ClaimedGain(n) ==
    LET L == level
        table == <<0, 100, 300, 500, 800>>
        spun == last_rotation_was_spin /\ current_piece.shape_type \in {"T", "S", "Z"}
        spinBonus == IF ~spun THEN 0
                     ELSE IF n = 1 THEN 800 * L
                     ELSE IF n = 2 THEN 1200 * L
                     ELSE IF n = 3 THEN 1600 * L
                     ELSE 0
        comboBonus == IF combo + 1 > 1 THEN 50 * (combo + 1) * L ELSE 0
    IN  table[Min(n, 4) + 1] * L + spinBonus + comboBonus

\* One completed row at level 1 with no spin and combo 0 before.
PlainSingle(n) ==
    /\ n = 1
    /\ level = 1
    /\ combo = 0
    /\ ~(last_rotation_was_spin /\ current_piece.shape_type \in {"T", "S", "Z"})

\* This step is a lock that leaves completed rows on the board: a direct
\* call of lock_current_piece, or the update tick of a hard drop.
LockStep ==
    /\ NumFullRows(board'.grid) >= 1
    /\ \/ last_op' = "lock_current_piece"
       \/ last_op' = "update" /\ locks' = locks + 1

\* What hard_drop scored for the rows dropped before it called
\* lock_current_piece (the locked piece stays the active piece while the
\* rows it completed are shown).
DropScore ==
    IF last_op' = "update" THEN 2 * (current_piece'.y - current_piece.y) ELSE 0

MaxLevelLocks == 6

LevelConfigs == {<<2, 4, 0 - 1>>, <<2, 4, 0>>, <<2, 4, 1>>, <<2, 4, 30>>}

LevelShapes == {"O"}

LevelKeys == {{}, {"SPACE"}}

\* The constructor arguments are kept in args.
InitLevels ==
    /\ \E c \in LevelConfigs :
          /\ IsGame(TetrisGame(c[1], c[2], c[3], <<"O", "O">>, <<FALSE>>))
          /\ args = c
    /\ resets = 0
    /\ calls = 0
    /\ last_op = "__init__"
    /\ ret = <<>>
    /\ rot_start = 0
    /\ rot_net = 0
    /\ piece_before = None
    /\ twin = <<>>
    /\ tally = <<>>

UpdateLevels ==
    /\ Frame(LevelKeys, LevelShapes, MaxLevelLocks, MaxSoftDrop)
    /\ fall_counter' <= MaxIdle

ResetLevels == ResetGame(LevelShapes, MaxLevelLocks)

NextLevels == UpdateLevels \/ ResetLevels

SpecLevels == InitLevels /\ [][NextLevels]_vars

LevelConsistent ==
    /\ level = (lines_cleared \div 10) + 1
    /\ fall_speed = FALL_SPEED_TABLE[Min(level - 1, 29) + 1]
    /\ last_op = "__init__" =>
          /\ start_level = Max(1, args[3])
          /\ lines_cleared = (start_level - 1) * 10

\* C7: in every reachable state, for every constructor start level (values
\* below 1 count as 1), level = lines_cleared // 10 + 1 and fall_speed =
\* FALL_SPEED_TABLE[min(level - 1, 29)]; lines_cleared starts at
\* (start_level - 1) * 10; and only reset() lowers level.
C7_Levels ==
    /\ []LevelConsistent
    /\ [][last_op' # "reset" => level' >= level]_vars

\* A game started at level 30 has gained a level, beyond the end of the
\* fall speed table.
C7_Witness ==
    /\ last_op = "update"
    /\ start_level = 30
    /\ lines_cleared = 300
    /\ level = 31
    /\ fall_speed = 1

(***************************************************************************)
(* SpecMoves: the game as main.py drives it, and in any state it reaches   *)
(* one observed call of move_piece by one cell left, right or down, or of  *)
(* rotate_piece either way.  The game is not followed after the call.      *)
(***************************************************************************)

\* An observed call named op with arguments a returned r.
Observed(op, a, r) ==
    /\ last_op' = op
    /\ args' = a
    /\ ret' = r
    /\ calls' = Min(calls + 1, MaxCalls)
    /\ piece_before' = current_piece
    /\ UNCHANGED <<rot_start, rot_net, twin, tally>>

\* The moves update() makes: left, right, down.
MoveDeltas == {<<0 - 1, 0>>, <<1, 0>>, <<0, 1>>}

InitMoves == Construct(GameConfigs, GameShapes) /\ NoHistory

UpdateMoves ==
    ByProgram /\ Frame(KeySets(MaxKeys), GameShapes, MaxLocks, MaxSoftDrop)

MoveCall ==
    /\ ByProgram
    /\ \E d \in MoveDeltas :
          \E m \in {move_piece(Self(<<>>, <<>>), d[1], d[2])} :
              /\ Commit(m.g)
              /\ UNCHANGED resets
              /\ Observed("move_piece", d, <<m.ret>>)

RotateCall ==
    /\ ByProgram
    /\ \E clockwise \in BOOLEAN :
          \E g \in {rotate_piece(Self(<<>>, <<>>), clockwise)} :
              /\ Commit(g)
              /\ UNCHANGED resets
              /\ Observed("rotate_piece", <<clockwise>>, <<>>)

NextMoves == UpdateMoves \/ MoveCall \/ RotateCall

SpecMoves == InitMoves /\ [][NextMoves]_vars

\* The piece t with its rotation index one step on, or one step back.
Turned(t, clockwise) ==
    LET n == Len(SHAPES[t.shape_type])
    IN  [t EXCEPT !.rotation_index = (@ + (IF clockwise THEN 1 ELSE n - 1)) % n]

Shifted(t, dx) == [t EXCEPT !.x = @ + dx]

\* The x offsets in the order the claim gives them.
KickOrder == <<0, 0 - 1, 1, 0 - 2, 2>>

\* The places in KickOrder at which the piece t fits the board b.
AcceptedAt(b, t) == {i \in 1..Len(KickOrder) : Fits(b, Shifted(t, KickOrder[i]))}

\* C11: rotate_piece (game not over, not paused) keeps the new rotation and
\* shifts only x; when some offset of 0, -1, +1, -2, +2 makes the rotated
\* piece valid, the piece ends rotated at the first such offset in that
\* order, in a valid position, with y unchanged and x changed by exactly
\* that offset.
C11_WallKick ==
    [][(last_op' = "rotate_piece" /\ ~game_over /\ ~paused) =>
          LET t  == Turned(current_piece, args'[1])
              ok == AcceptedAt(board, t)
          IN  ok # {} =>
                LET first == CHOOSE i \in ok : \A j \in ok : i <= j
                IN  /\ current_piece' = Shifted(t, KickOrder[first])
                    /\ Fits(board', current_piece')
                    /\ current_piece'.y = current_piece.y
                    /\ current_piece'.x - current_piece.x = KickOrder[first]]_vars

\* A T piece against the left wall was rotated and accepted one column to
\* the right.
C11_Witness ==
    /\ last_op = "rotate_piece"
    /\ piece_before.shape_type = "T"
    /\ piece_before.x = 0 - 1
    /\ current_piece.x = 0
    /\ current_piece.y = piece_before.y
    /\ current_piece.rotation_index # piece_before.rotation_index

\* rotate_piece(clockwise) finds no valid kick offset in this state.
NoKick(clockwise) ==
    /\ ~game_over
    /\ ~paused
    /\ AcceptedAt(board, Turned(current_piece, clockwise)) = {}

\* C12: whenever move_piece returns False the active piece, lock_delay_timer
\* and piece_on_ground are as before the call; whenever rotate_piece finds
\* no valid kick offset the active piece is as before the call and
\* lock_delay_timer is not extended.
C12_FailedLeavesPiece ==
    [][/\ (last_op' = "move_piece" /\ ret' = <<FALSE>>) =>
             /\ current_piece' = current_piece
             /\ lock_delay_timer' = lock_delay_timer
             /\ piece_on_ground' = piece_on_ground
       /\ (last_op' = "rotate_piece" /\ NoKick(args'[1])) =>
             /\ current_piece' = current_piece
             /\ lock_delay_timer' = lock_delay_timer]_vars

\* A piece resting on the ground was rotated where no offset fits, with its
\* lock delay running.
C12_Witness ==
    /\ last_op = "rotate_piece"
    /\ ~game_over
    /\ ~paused
    /\ piece_on_ground
    /\ lock_delay_timer < LOCK_DELAY
    /\ AcceptedAt(board, Turned(piece_before, args[1])) = {}
    /\ current_piece = piece_before

\* The three windows of the claim.
Falling == ~game_over /\ clear_animation_timer = 0
ClearAnimating == clear_animation_timer > 0
GameOver == game_over

ExactlyOne(a, b, c) ==
    \/ a /\ ~b /\ ~c
    \/ ~a /\ b /\ ~c
    \/ ~a /\ ~b /\ c

\* The original statement of C13: exactly one of the three windows holds in
\* every reachable state, so game_over and clear_animation_timer > 0 never
\* hold together.
C13_Original ==
    /\ ExactlyOne(Falling, ClearAnimating, GameOver)
    /\ ~(game_over /\ clear_animation_timer > 0)

\* C13 (amended): in every reachable state exactly one of the three windows
\* holds, except that game_over and clear_animation_timer > 0 hold together
\* while the rows completed by the lock that ended the game are shown: then
\* the board has a block in its top row and at least one full row, and
\* clearing_lines lists the full rows.
C13_Windows ==
    /\ clear_animation_timer \in 0..CLEAR_ANIMATION
    /\ \/ ExactlyOne(Falling, ClearAnimating, GameOver)
       \/ /\ game_over
          /\ clear_animation_timer > 0
          /\ \E x \in 1..board.width : board.grid[1][x] # 0
          /\ NumFullRows(board.grid) >= 1
          /\ Len(clearing_lines) = NumFullRows(board.grid)

\* The lock that ended the game completed a row, which is being shown.
C13_Witness ==
    /\ game_over
    /\ clear_animation_timer = CLEAR_ANIMATION - 1
    /\ last_op = "update"
    /\ Len(clearing_lines) = 1

(***************************************************************************)
(* SpecTwin: two games built with the same arguments and the same pieces   *)
(* take every update tick together, with the same keys, the same piece     *)
(* types and the same rare-event draw; the velocities drawn for their      *)
(* particles are independent.                                              *)
(***************************************************************************)

\* Velocities pyxel.rndf(-1, 1) and pyxel.rndf(-2, -0.5) can give.
Spreads == {<<0 - 1, 0 - 2>>, <<1, 0 - 1>>}

\* The velocity draws of a call that consumed n rare-event draws.
SpreadsFor(n) == IF n >= 1 THEN Spreads ELSE {NoSpread}

InitTwin ==
    /\ Construct(GameConfigs, GameShapes)
    /\ resets = 0
    /\ calls = 0
    /\ last_op = "__init__"
    /\ args = <<>>
    /\ ret = <<>>
    /\ rot_start = 0
    /\ rot_net = 0
    /\ piece_before = None
    /\ twin = Self(<<>>, <<>>)
    /\ tally = <<>>

\* One key a tick: none, rotate, left, right, hard drop, soft drop, hold, pause.
TwinKeys == StackKeys \cup {{"DOWN"}, {"C"}, {"P"}}

UpdateTwin ==
    \E keys \in TwinKeys :
        \E probe \in {update(Self(<<"I", "I">>, <<FALSE>>), keys)} :
            \E d \in DrawsFor(DrawsUsed(probe), GameShapes),
               r \in RndfFor(RndfUsed(probe)),
               v \in SpreadsFor(RndfUsed(probe)),
               w \in SpreadsFor(RndfUsed(probe)) :
                \E g \in {update([Self(d, r) EXCEPT !.spread = v], keys)},
                   t \in {update([twin EXCEPT !.draws = d, !.rndf = r, !.spread = w],
                                 keys)} :
                    /\ WithinBounds(g, MaxLocks, MaxSoftDrop)
                    /\ Commit(g)
                    /\ twin' = [t EXCEPT !.draws = <<>>, !.rndf = <<>>,
                                         !.spread = NoSpread]
                    /\ last_op' = "update"
                    /\ args' = <<>>
                    /\ ret' = <<>>
                    /\ UNCHANGED <<resets, calls, rot_start, rot_net, piece_before,
                                   tally>>

SpecTwin == InitTwin /\ [][UpdateTwin]_vars

\* The state the claim lists, of the first game and of the second: every
\* field of the object but the particles.
Listed(g) ==
    <<g.board, g.current_piece, g.next_piece, g.held_piece, g.can_swap,
      g.score, g.high_score, g.start_level, g.lines_cleared, g.level,
      g.game_over, g.paused, g.combo, g.clearing_lines,
      g.clear_animation_timer, g.level_up_timer, g.score_popup,
      g.score_popup_timer, g.tetris_timer, g.shake_timer, g.spin_message,
      g.spin_message_timer, g.last_rotation_was_spin, g.jump_scare_active,
      g.jump_scare_timer, g.fall_counter, g.fall_speed, g.move_left_counter,
      g.move_right_counter, g.move_down_counter, g.lock_delay_timer,
      g.piece_on_ground>>

ButHighScore(g) == [g EXCEPT !.high_score = 0, !.locks = 0]

\* C15: after reset() every field of the game other than high_score equals
\* its value in a freshly constructed game with the same width, height and
\* start level and the same active and next piece types.
C15_ResetReinitializes ==
    [][last_op' = "reset" =>
          ButHighScore(Self(<<>>, <<>>))' =
             ButHighScore(TetrisGame(board.width, board.height, start_level,
                                     <<current_piece'.shape_type,
                                       next_piece'.shape_type>>,
                                     <<>>))]_vars

LockDelayInRange ==
    /\ lock_delay_timer \in 0..LOCK_DELAY
    /\ ~piece_on_ground => lock_delay_timer = 0

\* This step is a call of move_piece that returned True or a call of
\* rotate_piece that found a valid offset.
MovedOrRotated ==
    \/ last_op' = "move_piece" /\ ret' = <<TRUE>>
    \/ /\ last_op' = "rotate_piece"
       /\ ~game_over
       /\ ~paused
       /\ AcceptedAt(board, Turned(current_piece, args'[1])) # {}

\* C16: in every reachable state 0 <= lock_delay_timer <= LOCK_DELAY, and
\* lock_delay_timer = 0 whenever piece_on_ground is false; a successful move
\* or rotation sets the timer to min(timer + LOCK_DELAY_EXTENSION,
\* LOCK_DELAY) when piece_on_ground is true and leaves it unchanged when it
\* is false.
C16_LockDelay ==
    /\ []LockDelayInRange
    /\ [][MovedOrRotated =>
            lock_delay_timer' =
               IF piece_on_ground
               THEN IF lock_delay_timer + 5 <= 15 THEN lock_delay_timer + 5 ELSE 15
               ELSE lock_delay_timer]_vars

\* A grounded piece whose lock delay had run below ten was moved sideways:
\* the delay went up by exactly the extension.
C16_Witness ==
    /\ last_op = "move_piece"
    /\ ret = <<TRUE>>
    /\ args[2] = 0
    /\ piece_on_ground
    /\ lock_delay_timer \in (LOCK_DELAY_EXTENSION + 1)..(LOCK_DELAY - 1)

(***************************************************************************)
(* SpecTicks: the game as main.py drives it, and in any state it reaches   *)
(* one observed update() tick, whose keys are kept in args, or one         *)
(* observed call of hard_drop().  The game is not followed after the       *)
(* observed step.                                                          *)
(***************************************************************************)

\* The key sets of an observed tick: at most MaxKeys keys, or a movement key
\* held together with hard drop, pause or another movement key, or two
\* rotation keys together.
TickKeys ==
    KeySets(MaxKeys) \cup
       {{"SPACE", "LEFT"}, {"SPACE", "DOWN"}, {"P", "LEFT"}, {"DOWN", "LEFT"},
        {"UP", "X"}, {"UP", "Z"}, {"X", "Z"}}

InitTicks == Construct(GameConfigs, GameShapes) /\ NoHistory

UpdateTicks ==
    ByProgram /\ Frame(KeySets(MaxKeys), GameShapes, MaxLocks, MaxSoftDrop)

\* self.game.update() with the keys of the frame observed.
Tick ==
    /\ ByProgram
    /\ \E keys \in TickKeys :
          \E probe \in {update(Self(<<"I", "I">>, <<FALSE>>), keys)} :
              \E d \in DrawsFor(DrawsUsed(probe), GameShapes),
                 r \in RndfFor(RndfUsed(probe)) :
                  \E g \in {update(Self(d, r), keys)} :
                      /\ Commit(g)
                      /\ UNCHANGED resets
                      /\ Observed("update", <<keys>>, <<>>)

\* self.hard_drop()
HardDropCall ==
    /\ ByProgram
    /\ \E probe \in {hard_drop(Self(<<"I", "I">>, <<FALSE>>))} :
          \E d \in DrawsFor(DrawsUsed(probe), GameShapes),
             r \in RndfFor(RndfUsed(probe)) :
              \E g \in {hard_drop(Self(d, r))} :
                  /\ Commit(g)
                  /\ UNCHANGED resets
                  /\ Observed("hard_drop", <<>>, <<>>)

NextTicks == UpdateTicks \/ Tick \/ HardDropCall

SpecTicks == InitTicks /\ [][NextTicks]_vars

Down(t, k) == [t EXCEPT !.y = @ + k]

\* The maximal number of consecutive valid one-row steps down of the piece
\* t on the board b.
MaxDrop(b, t) ==
    CHOOSE k \in 0..b.height :
        /\ \A j \in 1..k : Fits(b, Down(t, j))
        /\ ~Fits(b, Down(t, k + 1))

\* The grid of b with the cells of the piece t in its colour.
Stamped(b, t) ==
    [y \in 1..b.height |->
       [x \in 1..b.width |->
          IF <<x - 1, y - 1>> \in OccupiedCells(t)
          THEN COLORS[t.shape_type] ELSE b.grid[y][x]]]

\* This step is a hard drop of a piece in play: an observed hard_drop(), or
\* an observed tick with SPACE pressed and no rotate, hold or pause key, of
\* a game that is not paused and shows no clear animation.
HardDropStep ==
    /\ ~game_over
    /\ ~paused
    /\ \/ last_op' = "hard_drop"
       \/ /\ last_op' = "update"
          /\ args' # <<>>
          /\ "SPACE" \in args'[1]
          /\ args'[1] \subseteq {"SPACE", "LEFT", "RIGHT", "DOWN"}
          /\ clear_animation_timer = 0

\* C17: hard_drop (game not over, not paused) moves the active piece
\* straight down by the maximal number d of valid one-row steps, adds 2 * d
\* to score (beside what the lock scores for completed rows) and locks the
\* piece in the same call whatever lock_delay_timer and piece_on_ground
\* are; the update tick that triggers it runs no later step: the held-key
\* counters and fall_counter stay as they were, and the active piece
\* afterwards is the landed piece (when the lock completed a row or left a
\* block in the top row) or the next piece at its spawn position.
C17_HardDrop ==
    [][HardDropStep =>
          LET d == MaxDrop(board, current_piece)
              landed == Down(current_piece, d)
              rows == NumFullRows(board'.grid)
              topped == \E x \in 1..board.width : board'.grid[1][x] # 0
          IN  /\ locks' = locks + 1
              /\ board'.grid = Stamped(board, landed)
              /\ score' = score + 2 * d + (IF rows >= 1 THEN score_popup' ELSE 0)
              /\ (rows >= 1 \/ topped) => current_piece' = landed
              /\ (rows = 0 /\ ~topped) =>
                    /\ current_piece' = [next_piece EXCEPT
                                            !.x = (board.width \div 2) - 2, !.y = 0]
                    /\ lock_delay_timer' = 0
              /\ fall_counter' = fall_counter
              /\ move_left_counter' = move_left_counter
              /\ move_right_counter' = move_right_counter
              /\ move_down_counter' = move_down_counter]_vars

\* A tick with SPACE and LEFT held dropped a piece one row from the air,
\* its lock delay not running, and completed no row.
C17_Witness ==
    /\ last_op = "update"
    /\ args = <<{"SPACE", "LEFT"}>>
    /\ ~game_over
    /\ clear_animation_timer = 0
    /\ score = 2
    /\ locks = 1
    /\ move_left_counter = 0
    /\ current_piece.y = 0

(***************************************************************************)
(* SpecPause: the game played with rotate, right, hard drop and pause over *)
(* two locks, and in any paused or finished state it reaches one observed  *)
(* update() tick with the keys of TickKeys.                                *)
(***************************************************************************)

MaxPauseLocks == 2

PauseKeys == {{}, {"UP"}, {"RIGHT"}, {"SPACE"}, {"P"}}

InitPause == Construct(GameConfigs, GameShapes) /\ NoHistory

UpdatePause ==
    ByProgram /\ Frame(PauseKeys, GameShapes, MaxPauseLocks, MaxSoftDrop)

TickPause == (paused \/ game_over) /\ Tick

NextPause == UpdatePause \/ TickPause

SpecPause == InitPause /\ [][NextPause]_vars

\* The tick leaves the board, the pieces, score and the gameplay counters
\* and timers as they were.
GameplayFrozen ==
    UNCHANGED <<board, current_piece, next_piece, held_piece, score,
                fall_counter, lock_delay_timer, piece_on_ground,
                move_left_counter, move_right_counter, move_down_counter>>

Decayed(t) == IF t > 0 THEN t - 1 ELSE 0

\* Every positive cosmetic timer goes down by exactly 1.
CosmeticDecay ==
    /\ level_up_timer' = Decayed(level_up_timer)
    /\ score_popup_timer' = Decayed(score_popup_timer)
    /\ tetris_timer' = Decayed(tetris_timer)
    /\ shake_timer' = Decayed(shake_timer)
    /\ spin_message_timer' = Decayed(spin_message_timer)
    /\ jump_scare_timer' = Decayed(jump_scare_timer)

CosmeticKept ==
    UNCHANGED <<level_up_timer, score_popup_timer, tetris_timer, shake_timer,
                spin_message_timer, jump_scare_timer>>

\* This step is an observed tick of a paused game without the pause key.
PausedTick ==
    /\ last_op' = "update"
    /\ args' # <<>>
    /\ "P" \notin args'[1]
    /\ paused

GameOverTick == last_op' = "update" /\ args' # <<>> /\ game_over

\* The original statement of C18: a paused tick without the pause toggle
\* freezes the gameplay state while every positive cosmetic timer goes down
\* by 1, and game-over ticks decay the cosmetic timers the same way.
C18_Original ==
    [][/\ PausedTick => GameplayFrozen /\ CosmeticDecay
       /\ GameOverTick => CosmeticDecay]_vars

\* C18 (amended): a paused tick without the pause toggle freezes the
\* gameplay state while every positive cosmetic timer goes down by 1;
\* game-over ticks decay the cosmetic timers the same way, except the ticks
\* of a clear animation started by the lock that ended the game, which
\* leave the cosmetic timers as they are.
C18_PausedDecay ==
    [][/\ PausedTick => GameplayFrozen /\ CosmeticDecay
       /\ (GameOverTick /\ clear_animation_timer = 0) => CosmeticDecay
       /\ (GameOverTick /\ clear_animation_timer > 0) => CosmeticKept]_vars

\* A game paused right after a row was cleared took a tick with LEFT held:
\* the score popup and the shake went on counting down.
C18_Witness ==
    /\ last_op = "update"
    /\ args = <<{"LEFT"}>>
    /\ paused
    /\ ~game_over
    /\ score_popup_timer = SCORE_POPUP - 2
    /\ shake_timer > 0
    /\ move_left_counter = 0

\* The grid of b without its full rows, as many empty rows put on top.
RowsRemoved(b) ==
    LET kept == NotFullRows(b.grid)
    IN  [y \in 1..(b.height - Len(kept)) |-> [x \in 1..b.width |-> 0]] \o kept

\* The next piece, put where a spawn puts it.
NextSpawned ==
    [next_piece EXCEPT !.x = (board.width \div 2) - 2, !.y = 0]

\* This step locked a piece and the game went on.
LockGoesOn == locks' = locks + 1 /\ ~game_over'

\* This step is an update() tick of a running clear animation.
AnimationTick ==
    /\ last_op' = "update"
    /\ resets' = resets
    /\ clear_animation_timer > 0
    /\ ~game_over

\* What no tick of a clear animation touches.
AnimationKeeps ==
    /\ UNCHANGED <<score, held_piece, paused, locks, lines_cleared,
                   level, combo, fall_counter, fall_speed, move_left_counter,
                   move_right_counter, move_down_counter>>
    /\ CosmeticKept

\* C19: a lock that completes a row and does not end the game starts the
\* clear animation at 8 and spawns nothing (the active piece stays the
\* locked one, on its own blocks; next_piece is kept unless a hold of the
\* same tick took it before the lock); each tick of the animation,
\* whatever the keys, counts clear_animation_timer down by 1 and before the
\* tick that reaches 0 changes nothing else of the game; the tick that
\* reaches 0 removes the full rows, empties clearing_lines, spawns the next
\* piece and does nothing else; a lock that completes no row and does not
\* end the game spawns the next piece at once.
C19_ClearAnimation ==
    [][/\ (LockGoesOn /\ NumFullRows(board'.grid) >= 1) =>
             /\ clear_animation_timer' = CLEAR_ANIMATION
             /\ Len(clearing_lines') = NumFullRows(board'.grid)
             /\ \A c \in OccupiedCells(current_piece') :
                   /\ c[1] \in 0..(board.width - 1)
                   /\ c[2] \in 0..(board.height - 1)
                   /\ Cell(board', c[1], c[2]) # 0
             /\ can_swap' = can_swap =>
                   /\ next_piece' = next_piece
                   /\ current_piece'.shape_type = current_piece.shape_type
       /\ (LockGoesOn /\ NumFullRows(board'.grid) = 0) =>
             /\ clear_animation_timer' = 0
             /\ Fits(board', current_piece')
             /\ current_piece'.x = NextSpawned.x
             /\ current_piece'.y = 0
             /\ held_piece' = held_piece => current_piece' = NextSpawned
       /\ AnimationTick =>
             /\ clear_animation_timer' = clear_animation_timer - 1
             /\ AnimationKeeps
             /\ IF clear_animation_timer > 1
                THEN UNCHANGED <<board, current_piece, next_piece,
                                 clearing_lines, lock_delay_timer,
                                 piece_on_ground, game_over, can_swap>>
                ELSE /\ board'.grid = RowsRemoved(board)
                     /\ clearing_lines' = <<>>
                     /\ current_piece' = NextSpawned]_vars

\* The 8th tick after a hard drop that completed a row, taken with SPACE and
\* LEFT held: the rows are gone, the next piece is in, nothing was dropped.
C19_Witness ==
    /\ last_op = "update"
    /\ args = <<{"SPACE", "LEFT"}>>
    /\ locks = 1
    /\ ~game_over
    /\ clear_animation_timer = 0
    /\ clearing_lines = <<>>
    /\ score > 0
    /\ score_popup_timer = SCORE_POPUP
    /\ move_left_counter = 0
    /\ current_piece.y = 0
    /\ NumFullRows(board.grid) = 0

\* This step is an observed tick of a running game with no key held but,
\* possibly, DOWN: the only moves it can make are the downward steps.
DownwardTick ==
    /\ last_op' = "update"
    /\ args' # <<>>
    /\ args'[1] \subseteq {"DOWN"}
    /\ ~paused
    /\ ~game_over
    /\ clear_animation_timer = 0

\* piece_on_ground and lock_delay_timer after a failed downward step.
Grounded(og, t) == IF og THEN <<TRUE, t>> ELSE <<TRUE, LOCK_DELAY>>

GroundConfigs == {<<4, 4, 17>>, <<4, 4, 9>>}

GroundKeys == {{}, {"UP"}, {"LEFT"}, {"RIGHT"}, {"DOWN"}}

\* The gravity step of a tick in the present state is due and fails.
GravityFails ==
    /\ fall_counter + 1 >= fall_speed
    /\ ~is_valid_position(board, [current_piece EXCEPT !.y = @ + 1])

\* The tick in the present state reaches the gameplay steps of update().
Running == ~paused /\ ~game_over /\ clear_animation_timer = 0

GroundTally(keys, g) ==
    [since |->
        IF keys # {} \/ ~Running \/ g.locks # locks THEN 0
        ELSE IF tally.since > 0 THEN Min(tally.since + 1, LOCK_DELAY + 1)
        ELSE IF GravityFails THEN 1
        ELSE 0]

UpdateGround ==
    /\ FrameKeyed(GroundKeys, GameShapes, MaxLocks, MaxSoftDrop)
    /\ \E g \in {Self(<<>>, <<>>)'} : tally' = GroundTally(args'[1], g)

SpecGround ==
    /\ ConstructTallied(GroundConfigs, GameShapes, [since |-> 0])
    /\ [][UpdateGround]_vars

\* This step is a tick without any key of a running game.
IdleTick == last_op' = "update" /\ args' = <<{}>> /\ Running

\* C21: with no input and the game unpaused, a piece whose gravity step
\* failed is on the ground with the timer below LOCK_DELAY after that tick;
\* every later tick without input takes exactly 1 off lock_delay_timer and
\* locks nothing while the result is positive, and locks the piece on the
\* tick the timer reaches 0, which comes no later than the 15th tick
\* counted from the failure.
C21_LockWithinDelay ==
    /\ [](tally.since < LOCK_DELAY)
    /\ [](tally.since > 0 =>
            piece_on_ground /\ lock_delay_timer \in 1..(LOCK_DELAY - tally.since))
    /\ [][(IdleTick /\ tally.since > 0) =>
            IF lock_delay_timer > 1
            THEN lock_delay_timer' = lock_delay_timer - 1 /\ locks' = locks
            ELSE locks' = locks + 1]_vars

\* The 14th tick since the failed gravity step, no key touched: the timer
\* is at 1 and the next tick locks.
C21_Witness ==
    /\ tally.since = LOCK_DELAY - 1
    /\ lock_delay_timer = 1
    /\ piece_on_ground
    /\ locks = 0

(***************************************************************************)
(* SpecRepeat: one I piece on a board 8 wide at level 1 (gravity every 48  *)
(* ticks), followed until fall_counter is at 34, LEFT held for up to 33     *)
(* ticks in a row, with rotate, hard drop and pause in between.  `tally`   *)
(* counts the unpaused ticks in a row on which LEFT was down, as the       *)
(* keyboard saw it.                                                        *)
(***************************************************************************)

MaxRepeat == 33
MaxRepeatTicks == 34

RepeatKeys == {{}, {"LEFT"}, {"UP"}, {"SPACE"}, {"P"}}

\* The game is paused when the tick with these keys passes lines 341-345.
PausedTickWith(keys) == IF "P" \in keys THEN ~paused ELSE paused

RepeatTally(keys, g) ==
    [left |-> IF ~game_over /\ clear_animation_timer = 0 /\ PausedTickWith(keys)
              THEN tally.left
              ELSE IF "LEFT" \in keys THEN Min(tally.left + 1, MaxRepeat + 1)
              ELSE 0]

UpdateRepeat ==
    \E keys \in RepeatKeys :
        \E probe \in {update(Self(<<"I", "I">>, <<FALSE>>), keys)} :
            \E d \in DrawsFor(DrawsUsed(probe), {"I"}),
               r \in RndfFor(RndfUsed(probe)) :
                \E g \in {update(Self(d, r), keys)} :
                    /\ g.locks <= MaxLocks
                    /\ g.move_left_counter <= MaxRepeat
                    /\ g.move_right_counter <= MaxHold
                    /\ g.fall_counter <= MaxRepeatTicks
                    /\ Commit(g)
                    /\ UNCHANGED resets
                    /\ Logged("update", <<keys>>, <<>>)
                    /\ tally' = RepeatTally(keys, g)

SpecRepeat ==
    /\ ConstructTallied({<<8, 4, 1>>}, {"I"}, [left |-> 0])
    /\ [][UpdateRepeat]_vars

\* This step is a tick of a running, unpaused game with LEFT down alone,
\* and it locked nothing.
LeftTick ==
    /\ last_op' = "update"
    /\ args' = <<{"LEFT"}>>
    /\ Running
    /\ locks' = locks

\* The n-th tick of a hold is one of ticks 1, 16, 24, 32, ...
RepeatTick(n) == n = 1 \/ (n > INITIAL_MOVE_DELAY /\ n % MOVE_DELAY = 0)

\* C22: while LEFT is held on consecutive unpaused ticks, the piece moves
\* left, when it has room, exactly on the 1st tick of the hold and on the
\* ticks of the hold whose count is above 15 and divisible by 8, and the
\* count kept by the game is the number of ticks of the hold, 0 once the
\* key is released.
C22_AutoRepeat ==
    /\ [](Running => move_left_counter = tally.left)
    /\ [][LeftTick =>
            (current_piece'.x = current_piece.x - 1
               <=> /\ RepeatTick(tally.left + 1)
                   /\ Fits(board, Shifted(current_piece, 0 - 1)))]_vars

(***************************************************************************)
(* SpecSpin: rotate_piece called once, either way, on every piece of the   *)
(* seven shapes in a valid position over every content without a full row  *)
(* of a board 3 wide and 4 high, the spin flag set or not before the call. *)
(***************************************************************************)

SpinWidth == 3
SpinHeight == 4

InitSpin ==
    /\ \E b \in Boards(SpinWidth, SpinHeight), t \in Pieces(SpinWidth, SpinHeight),
          f \in BOOLEAN :
          /\ t.y >= 0
          /\ \A y \in 0..(SpinHeight - 1) : ~RowFull(b, y)
          /\ is_valid_position(b, t)
          /\ IsGame([Fresh(SpinWidth, SpinHeight) EXCEPT
                        !.board = b, !.current_piece = t,
                        !.game_over = FALSE, !.last_rotation_was_spin = f])
    /\ NoHistory

SpecSpin == InitSpin /\ [][RotateCall]_vars

\* The points of the piece t the claim names that are outside the board b
\* or on a non-empty cell of it.
BlockedCorners(b, t) ==
    {c \in {<<t.x, t.y>>, <<t.x + 2, t.y>>, <<t.x, t.y + 2>>, <<t.x + 2, t.y + 2>>} :
        \/ c[1] \notin 0..(b.width - 1)
        \/ c[2] \notin 0..(b.height - 1)
        \/ Cell(b, c[1], c[2]) # 0}

\* C23: after a rotate_piece that found a valid place (game not over, not
\* paused) last_rotation_was_spin is true exactly when the shape is T, S or
\* Z and at least 3 of the 4 points (x,y), (x+2,y), (x,y+2), (x+2,y+2) of
\* the piece's new position are outside the board or on a non-empty cell;
\* after a rotate_piece that found none the flag is false.
C23_SpinFlag ==
    [][(last_op' = "rotate_piece" /\ ~game_over /\ ~paused) =>
          IF AcceptedAt(board, Turned(current_piece, args'[1])) # {}
          THEN last_rotation_was_spin' =
                  (/\ current_piece.shape_type \in {"T", "S", "Z"}
                   /\ Cardinality(BlockedCorners(board', current_piece')) >= 3)
          ELSE ~last_rotation_was_spin']_vars

\* An S piece was rotated into a place with exactly three of the four
\* points blocked, the flag not set before: it is a spin.
C23_Witness ==
    /\ last_op = "rotate_piece"
    /\ current_piece.shape_type = "S"
    /\ current_piece # piece_before
    /\ Cardinality(BlockedCorners(board, current_piece)) = 3
    /\ last_rotation_was_spin

(***************************************************************************)
(* SpecLines: the game played over three locks or resets with rotate,      *)
(* right and hard drop, and a tally of the run since construction or the   *)
(* last reset:                                                             *)
(* `streak` is the number of locks in a row, up to the latest, that each   *)
(* completed a row; `removed` is the number of rows that left the board.   *)
(***************************************************************************)

\* The number of non-empty cells of the board b.
Blocks(b) ==
    Cardinality({c \in (0..(b.width - 1)) \X (0..(b.height - 1)) :
                    Cell(b, c[1], c[2]) # 0})

\* The rows that left the board between b and b2: a lock adds four cells,
\* a clear takes whole rows away.
RowsGone(b, b2) ==
    IF Blocks(b2) < Blocks(b) THEN (Blocks(b) - Blocks(b2)) \div b.width ELSE 0

LinesTally(keys, g) ==
    [streak |-> IF g.locks = locks THEN tally.streak
                ELSE IF \E y \in 0..(g.board.height - 1) : RowFull(g.board, y)
                     THEN tally.streak + 1
                     ELSE 0,
     removed |-> tally.removed + RowsGone(board, g.board)]

LinesKeys == {{}, {"UP"}, {"RIGHT"}, {"SPACE"}}

UpdateLines ==
    /\ FrameKeyed(LinesKeys, GameShapes, MaxStackLocks, MaxSoftDrop)
    /\ \E g \in {Self(<<>>, <<>>)'} : tally' = LinesTally(args'[1], g)

ResetLines ==
    /\ locks + resets < MaxStackLocks
    /\ \E d \in DrawsFor(2, GameShapes) :
          \E g \in {reset(Self(d, <<FALSE>>))} :
              /\ Commit(g)
              /\ resets' = resets + 1
              /\ Logged("reset", <<>>, <<>>)
              /\ tally' = [streak |-> 0, removed |-> 0]

NextLines == UpdateLines \/ ResetLines

SpecLines ==
    /\ ConstructTallied(GameConfigs, GameShapes, [streak |-> 0, removed |-> 0])
    /\ [][NextLines]_vars

\* C24: in every reachable state combo is the number of locks in a row, up
\* to the latest one since construction or reset, that each completed at
\* least one row.
C24_Combo == combo = tally.streak

\* Two locks in a row completed a row each.
C24_Witness == combo = 2 /\ tally.streak = 2 /\ locks = 2

\* C30: a lock adds to lines_cleared the number of rows it completed, the
\* rows are on the board until the clear animation ends and leave it then,
\* so whenever no clear animation is pending lines_cleared minus its
\* baseline (start_level - 1) * 10 is the number of rows removed from the
\* board since construction or the last reset.
C30_LinesCredited ==
    /\ [](clear_animation_timer = 0 =>
            lines_cleared - (start_level - 1) * 10 = tally.removed)
    /\ [](clear_animation_timer > 0 =>
            lines_cleared - (start_level - 1) * 10
               = tally.removed + NumFullRows(board.grid))
    /\ [][(last_op' = "update" /\ locks' = locks + 1) =>
            lines_cleared' - lines_cleared = NumFullRows(board'.grid)]_vars

\* The game ended on a lock that completed a row, and the row was removed
\* when the animation ended: one row credited, one row removed.
C30_Witness ==
    /\ game_over
    /\ clear_animation_timer = 0
    /\ tally.removed = 1
    /\ lines_cleared = (start_level - 1) * 10 + 1
    /\ locks = 2

\* This step is an observed tick of a running game with rotation keys
\* only, and it locked nothing.
RotationTick ==
    /\ last_op' = "update"
    /\ args' # <<>>
    /\ args'[1] \subseteq {"UP", "X", "Z"}
    /\ Running
    /\ locks' = locks

\* rotate_piece finds a place for the piece t on the board b.
TurnApplies(b, t, clockwise) == AcceptedAt(b, Turned(t, clockwise)) # {}

\* The piece t after one rotation on the board b: turned and put at the
\* first offset that fits, or as it was when none fits.
TurnedOn(b, t, clockwise) ==
    LET ok == AcceptedAt(b, Turned(t, clockwise))
    IN  IF ok = {} THEN t
        ELSE Shifted(Turned(t, clockwise),
                     KickOrder[CHOOSE i \in ok : \A j \in ok : i <= j])

\* The tick left the piece turned and placed as q is, and a piece that was
\* and stays on the ground with the lock delay extended k times and then
\* counted down once.
TickTurned(q, k) ==
    /\ current_piece'.rotation_index = q.rotation_index
    /\ current_piece'.x = q.x
    /\ (piece_on_ground /\ piece_on_ground') =>
          lock_delay_timer' =
             (IF k = 0 THEN lock_delay_timer
              ELSE IF k = 1 THEN Min(lock_delay_timer + LOCK_DELAY_EXTENSION, LOCK_DELAY)
              ELSE Min(Min(lock_delay_timer + LOCK_DELAY_EXTENSION, LOCK_DELAY)
                          + LOCK_DELAY_EXTENSION, LOCK_DELAY)) - 1

C26_HighScore ==
    [][/\ high_score' >= high_score
       /\ (locks' = locks + 1 /\ NumFullRows(board'.grid) >= 1) =>
             high_score' >= score'
       /\ last_op' = "reset" => (high_score' >= score /\ score' = 0)]_vars

\* A game that had scored only drop points was reset: the points became
\* the high score.
C26_Witness ==
    /\ last_op = "reset"
    /\ resets = 1
    /\ score = 0
    /\ high_score > 0
    /\ high_score < 100

\* The cells the lock of this step filled.
LockedCells ==
    {c \in (0..(board.width - 1)) \X (0..(board.height - 1)) :
        Cell(board, c[1], c[2]) = 0 /\ Cell(board', c[1], c[2]) # 0}

\* C27: on every update tick in which the lock-delay countdown locks the
\* active piece (a lock without hard drop), the piece rests on a surface:
\* one of its cells is on the bottom row or right above a cell that was
\* occupied before the lock.
C27_LockOnlyAtRest ==
    [][(last_op' = "update" /\ locks' = locks + 1 /\ "SPACE" \notin args'[1]) =>
          \E c \in LockedCells :
              \/ c[2] = board.height - 1
              \/ Cell(board, c[1], c[2] + 1) # 0]_vars

\* C28: in every reachable state in which the game is not over and no
\* clear animation is running, the active piece is in a valid position:
\* its four cells are in columns [0, width) and rows below height, and none
\* of them is on a non-empty cell of the board.
C28_ActivePieceValid ==
    (~game_over /\ clear_animation_timer = 0 /\ current_piece # None) =>
        /\ Cardinality(OccupiedCells(current_piece)) = 4
        /\ Fits(board, current_piece)

(***************************************************************************)
(* SpecPostpone: the first piece of a game at level 17 (gravity every 3rd  *)
(* tick) played with a rotation, a move or no key on every tick, and the   *)
(* tick never withheld: main.py calls update() on every frame.  `tally`    *)
(* counts the ticks in a row, up to the present one, that left a           *)
(* grounded piece where and as it was (`quiet`), and whether a move or a   *)
(* rotation of the grounded piece succeeded (`moved`).                     *)
(***************************************************************************)

PostponeTally(keys, g) ==
    IF ~Running THEN tally
    ELSE IF ~g.piece_on_ground \/ g.locks # locks
         THEN [quiet |-> 0, moved |-> FALSE]
    ELSE IF ~piece_on_ground
         THEN [quiet |-> 1, moved |-> FALSE]
    ELSE IF g.current_piece # current_piece
         THEN [quiet |-> 0, moved |-> TRUE]
    ELSE [quiet |-> Min(tally.quiet + 1, LOCK_DELAY + LOCK_DELAY_EXTENSION),
          moved |-> tally.moved]

UpdatePostpone ==
    /\ FrameKeyed(GroundKeys, GameShapes, MaxLocks, MaxSoftDrop)
    /\ \E g \in {Self(<<>>, <<>>)'} : tally' = PostponeTally(args'[1], g)

SpecPostpone ==
    /\ ConstructTallied({<<4, 4, 17>>}, GameShapes, [quiet |-> 0, moved |-> FALSE])
    /\ [][UpdatePostpone]_vars
    /\ WF_vars(UpdatePostpone)

\* The original statement of C29: once piece_on_ground is true, the piece
\* is locked or a gravity step succeeds (piece_on_ground is false again)
\* at some later tick, whatever the keys.
C29_Original ==
    (piece_on_ground /\ locks = 0) ~> (~piece_on_ground \/ locks > 0)

\* C29 (amended): a grounded piece stays unlocked for fewer than LOCK_DELAY
\* update ticks in a row that neither move nor turn it: after the tick that
\* grounded it and after every later tick, lock_delay_timer is at most
\* LOCK_DELAY less the number of such ticks, and the piece is locked on the
\* tick the timer reaches 0.
C29_LockUnlessMoved ==
    (piece_on_ground /\ ~game_over /\ clear_animation_timer = 0) =>
        /\ tally.quiet < LOCK_DELAY
        /\ lock_delay_timer >= 1
        /\ lock_delay_timer + tally.quiet <= LOCK_DELAY

\* A grounded piece was moved or turned, and 13 ticks that left it alone
\* have passed since: the timer is at 1 and the next tick locks or moves it.
C29_Witness ==
    /\ piece_on_ground
    /\ locks = 0
    /\ tally.moved
    /\ tally.quiet = LOCK_DELAY - 2
    /\ lock_delay_timer = 1

====
